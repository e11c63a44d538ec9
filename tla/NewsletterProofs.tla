-------------------------- MODULE NewsletterProofs --------------------------
(***************************************************************************)
(* Proofs about Newsletter and Subscriptions: an issue repeats only for a  *)
(* run that was cut off, a done issue visited its whole list, an address   *)
(* is mailed only with consent, and a pending one can still confirm.       *)
(***************************************************************************)
EXTENDS Newsletter, HandlerRunsProofs

(* Requests that hold the id of a row. *)
Holder == {"reset", "fill", "tags", "enqueue", "autoConfirm", "vouch", "setTags",
           "confirm", "unsubscribe"}

AskedFor ==
    \A r \in Requests :
        /\ req[r].pc # "idle" => req[r].email \in Emails
        /\ req[r].pc \in Holder => req[r].id \in SubIds

Types == RunInv /\ TypeOK /\ AskedFor

LEMMA SameRun ==
    ASSUME RunInv, UNCHANGED runVars
    PROVE  RunInv'
  BY DEF runVars, RunInv, RunTypeOK, AttemptLeft, HeldRowRuns

(* The table with one row per address. *)
Rows(S) ==
    /\ S \in [SubIds -> Subscriber \cup {NoSub}]
    /\ \A i, j \in SubIds : S[i] # NoSub /\ S[i].email = S[j].email => i = j

LEMMA Typed ==
    ASSUME Types
    PROVE  /\ RunInv /\ AskedFor /\ Rows(subs) /\ tokens \in 1..MaxTokens
           /\ req \in [Requests -> Request]
           /\ inbox \subseteq Emails \X (0..MaxTokens)
           /\ letters \subseteq Emails \X (0..MaxTokens)
           /\ consent \subseteq Emails /\ abandoned \subseteq SubIds
           /\ settings \in Settings /\ article \in (SUBSET Tags) \cup {Gone}
           /\ sending \subseteq [id : SubIds, email : Emails, leave : 0..MaxTokens]
           /\ delivered \in [Emails -> Nat] /\ campaigns \in Nat /\ interrupted \in Nat
  BY DEF Types, TypeOK, SubTypeOK, Rows, Present

LEMMA RowOf ==
    ASSUME NEW S, Rows(S), NEW i \in SubIds
    PROVE  /\ S[i] \in Subscriber \cup {NoSub}
           /\ S[i] # NoSub => S[i] \in Subscriber
           /\ S[i].email \in Emails => S[i] # NoSub
           /\ S[i].token \in 0..MaxTokens /\ S[i].leave \in 0..MaxTokens
           /\ S[i].token # 0 => S[i] # NoSub
           /\ S[i].leave # 0 => S[i] # NoSub
  BY MailAssumption, SubscriptionsAssumption DEF Rows, Subscriber, NoSub

(* An UPDATE by id that keeps the address. *)
LEMMA SetRows ==
    ASSUME Rows(subs), NEW i \in SubIds, NEW row,
           Present(i) => row \in Subscriber /\ row.email = subs[i].email
    PROVE  /\ Rows(Set(i, row))
           /\ \A j \in SubIds \ {i} : Set(i, row)[j] = subs[j]
           /\ Present(i) => Set(i, row)[i] = row
           /\ ~Present(i) => Set(i, row) = subs
  <1>1. CASE ~Present(i)
    BY <1>1 DEF Set
  <1>2. CASE Present(i)
    <2>1. Set(i, row) = [subs EXCEPT ![i] = row] /\ subs \in [SubIds -> Subscriber \cup {NoSub}]
          /\ row \in Subscriber
      BY <1>2 DEF Set, Rows
    <2>2. /\ Set(i, row) \in [SubIds -> Subscriber \cup {NoSub}]
          /\ Set(i, row)[i] = row /\ \A j \in SubIds \ {i} : Set(i, row)[j] = subs[j]
      BY <2>1
    <2>3. \A j \in SubIds : Set(i, row)[j].email = subs[j].email
                            /\ (Set(i, row)[j] # NoSub => subs[j] # NoSub)
      BY <1>2, <2>2 DEF Present
    <2> QED
      BY <1>2, <2>2, <2>3 DEF Rows
  <1> QED
    BY <1>1, <1>2

(* An INSERT of an address that has no row. *)
LEMMA CreateRows ==
    ASSUME Types, NEW i \in SubIds, IsNextSubId(i), NEW e \in Emails,
           GetSubscriberByEmail(e) = {}, NewToken
    PROVE  /\ Rows(CreateSubscriber(i, e)) /\ tokens' \in 1..MaxTokens
           /\ ~Present(i)
           /\ \A j \in SubIds \ {i} : CreateSubscriber(i, e)[j] = subs[j]
           /\ CreateSubscriber(i, e)[i] \in Subscriber
           /\ CreateSubscriber(i, e)[i].email = e
           /\ CreateSubscriber(i, e)[i].token # 0
           /\ ~CreateSubscriber(i, e)[i].confirmed
  <1> DEFINE row == [NoSub EXCEPT !.email = e, !.token = tokens + 1, !.leave = tokens + 1]
  <1>1. tokens' = tokens + 1 /\ tokens \in 1..MaxTokens /\ tokens < MaxTokens
    BY Typed DEF NewToken
  <1>2. tokens + 1 \in 1..MaxTokens /\ tokens + 1 # 0
    BY <1>1, SubscriptionsAssumption
  <1>3. row \in Subscriber /\ row.email = e /\ row.token # 0 /\ ~row.confirmed
    <2>1. NoSub \in [email : Emails \cup {NoEmail}, token : {0}, leave : {0}, confirmed : {FALSE},
                     unsubscribed : {FALSE}, tags : {{}}]
      BY DEF NoSub
    <2>2. tokens + 1 \in 0..MaxTokens /\ {} \in SUBSET Tags
      BY <1>2
    <2> QED
      BY <1>2, <2>1, <2>2 DEF Subscriber
  <1>4. CreateSubscriber(i, e) = [subs EXCEPT ![i] = row]
        /\ subs \in [SubIds -> Subscriber \cup {NoSub}]
    BY Typed DEF CreateSubscriber, Rows
  <1> HIDE DEF row
  <1>5. CreateSubscriber(i, e)[i] = row
        /\ \A j \in SubIds \ {i} : CreateSubscriber(i, e)[j] = subs[j]
    BY <1>4
  <1>6. ~Present(i)
    BY SubscriptionsAssumption DEF IsNextSubId, SubIds
  <1>7. \A j \in SubIds : subs[j].email # e
    BY DEF GetSubscriberByEmail
  <1>8. CreateSubscriber(i, e) \in [SubIds -> Subscriber \cup {NoSub}]
    BY <1>3, <1>4
  <1>9. ASSUME NEW j \in SubIds, NEW k \in SubIds, CreateSubscriber(i, e)[j] # NoSub,
               CreateSubscriber(i, e)[j].email = CreateSubscriber(i, e)[k].email
        PROVE  j = k
    BY <1>3, <1>5, <1>7, <1>9, Typed DEF Rows
  <1> QED
    BY <1>1, <1>2, <1>3, <1>5, <1>6, <1>8, <1>9 DEF Rows

(* What a request may become. *)
Fits(q) ==
    /\ q \in Request
    /\ q.pc # "idle" => q.email \in Emails
    /\ q.pc \in Holder => q.id \in SubIds

LEMMA IdleFits == Fits(Idle)
  BY DEF Fits, Idle, Request, Holder

LEMMA RequestStep ==
    ASSUME Types, NEW r \in Requests, NEW q, Fits(q), Keep(r, q),
           RunInv', Rows(subs'), tokens' \in 1..MaxTokens, consent' \subseteq Emails,
           abandoned' \subseteq SubIds, UNCHANGED <<inbox, letters, newsVars>>
    PROVE  Types'
  <1>1. req' \in [Requests -> Request] /\ req'[r] = q /\ \A x \in Requests \ {r} : req'[x] = req[x]
    BY Typed DEF Keep, Fits
  <1>2. AskedFor'
    BY <1>1, Typed DEF AskedFor, Fits
  <1>3. SubTypeOK'
    BY <1>1, Typed DEF SubTypeOK, Rows, Present
  <1> QED
    BY <1>2, <1>3, Typed DEF Types, TypeOK, RunInv, newsVars

LEMMA GotoFits ==
    ASSUME Types, NEW r \in Requests, req[r].pc \in Holder, NEW pc \in {"tags", "enqueue", "setTags"}
    PROVE  Fits([req[r] EXCEPT !.pc = pc])
  <1>1. req[r] \in Request /\ req[r].email \in Emails /\ req[r].id \in SubIds
    BY Typed DEF AskedFor, Holder
  <1> QED
    BY <1>1 DEF Fits, Request, Holder

LEMMA NextPcCases ==
    ASSUME NEW row, row \in Subscriber
    PROVE  /\ NextPc(row) \in {"idle", "reset", "fill", "tags"}
           /\ NextPc(row) = "tags" => row.token # 0
  <1>1. row.confirmed \in BOOLEAN /\ row.unsubscribed \in BOOLEAN
    BY DEF Subscriber
  <1>2. CASE Active(row)
    <2>1. ~row.unsubscribed
      BY <1>2 DEF Active
    <2> QED
      BY <1>2, <2>1 DEF NextPc
  <1>3. CASE row.unsubscribed
    <2>1. ~Active(row)
      BY <1>3 DEF Active
    <2> QED
      BY <1>3, <2>1 DEF NextPc
  <1>4. CASE ~Active(row) /\ ~row.unsubscribed /\ row.token = 0
    BY <1>4 DEF NextPc
  <1>5. CASE ~Active(row) /\ ~row.unsubscribed /\ row.token # 0
    BY <1>5 DEF NextPc
  <1> QED
    BY <1>2, <1>3, <1>4, <1>5

(* The request a lookup by address leads to. *)
LEMMA FoundRequest ==
    ASSUME Types, NEW r \in Requests, NEW e \in Emails, NEW tags \in SUBSET Tags,
           Found(r, e, tags)
    PROVE  \E q : /\ Keep(r, q) /\ Fits(q)
                  /\ q.pc \in {"idle", "reset", "fill", "tags"}
                  /\ q.pc # "idle" => Present(q.id) /\ subs[q.id].email = q.email
                  /\ q.pc = "tags" => subs[q.id].token # 0
  <1>1. PICK i \in GetSubscriberByEmail(e) :
          Keep(r, IF NextPc(subs[i]) = "idle" THEN Idle
                  ELSE [pc |-> NextPc(subs[i]), email |-> e, id |-> i, tags |-> tags])
    BY DEF Found
  <1>2. i \in SubIds /\ subs[i].email = e
    BY DEF GetSubscriberByEmail
  <1>3. Present(i) /\ subs[i] \in Subscriber
    BY <1>2, Typed, RowOf DEF Present
  <1>4. /\ NextPc(subs[i]) \in {"idle", "reset", "fill", "tags"}
        /\ NextPc(subs[i]) = "tags" => subs[i].token # 0
    BY <1>3, NextPcCases
  <1>5. CASE NextPc(subs[i]) = "idle"
    <2>1. Keep(r, Idle)
      BY <1>1, <1>5
    <2> QED
      BY <2>1, IdleFits DEF Idle
  <1>6. CASE NextPc(subs[i]) # "idle"
    <2> DEFINE q == [pc |-> NextPc(subs[i]), email |-> e, id |-> i, tags |-> tags]
    <2>1. Keep(r, q)
      BY <1>1, <1>6
    <2>2. Fits(q)
      BY <1>2, <1>4 DEF Fits, Request
    <2>3. q.pc = NextPc(subs[i]) /\ q.id = i /\ q.email = e
      OBVIOUS
    <2> QED
      BY <1>2, <1>3, <1>4, <2>1, <2>2, <2>3
  <1> QED
    BY <1>5, <1>6

(* The requests that only read, or lost an insert race: they wrote nothing *)
(* and had promised nothing.                                               *)
ReadStep(r) ==
    \/ Subscribe(r) \/ Reload(r) \/ FollowConfirmLink(r) \/ FollowUnsubscribeLink(r)
    \/ BatchCreate(r) \/ BatchConfirm(r)
    \/ (Insert(r) \/ BatchInsert(r)) /\ GetSubscriberByEmail(req[r].email) # {}

LEMMA ReadRequest ==
    ASSUME Types, NEW r \in Requests, ReadStep(r)
    PROVE  /\ UNCHANGED <<runVars, subs, tokens, consent, inbox, letters, abandoned>>
           /\ req[r].pc \in {"idle", "insert", "reload", "create"}
           /\ \E q : /\ Keep(r, q) /\ Fits(q) /\ q.pc # "enqueue"
                     /\ q.pc \in Holder => Present(q.id) /\ subs[q.id].email = q.email
                     /\ q.pc = "tags" => subs[q.id].token # 0
  <1>0. /\ Rows(subs) /\ req[r] \in Request
        /\ inbox \subseteq Emails \X (0..MaxTokens) /\ letters \subseteq Emails \X (0..MaxTokens)
    BY Typed
  <1>i. Idle.pc = "idle" /\ Fits(Idle)
    BY IdleFits DEF Idle
  <1>h. "idle" \notin Holder /\ "insert" \notin Holder /\ "reload" \notin Holder
        /\ "create" \notin Holder
    BY DEF Holder
  <1>k. ASSUME Keep(r, Idle)
        PROVE  \E q : /\ Keep(r, q) /\ Fits(q) /\ q.pc # "enqueue"
                      /\ q.pc \in Holder => Present(q.id) /\ subs[q.id].email = q.email
                      /\ q.pc = "tags" => subs[q.id].token # 0
    BY <1>i, <1>h, <1>k
  <1>1. CASE Subscribe(r)
    <2>1. PICK e \in Emails, tags \in SUBSET Tags :
            IF GetSubscriberByEmail(e) # {} THEN Found(r, e, tags)
            ELSE Keep(r, [pc |-> "insert", email |-> e, id |-> 0, tags |-> tags])
      BY <1>1 DEF Subscribe
    <2>2. CASE GetSubscriberByEmail(e) # {}
      <3>1. Found(r, e, tags)
        BY <2>1, <2>2
      <3>2. PICK q : /\ Keep(r, q) /\ Fits(q)
                     /\ q.pc \in {"idle", "reset", "fill", "tags"}
                     /\ q.pc # "idle" => Present(q.id) /\ subs[q.id].email = q.email
                     /\ q.pc = "tags" => subs[q.id].token # 0
        BY <3>1, FoundRequest
      <3> QED
        BY <1>1, <1>h, <3>2 DEF Subscribe, Ask, Idle
    <2>3. CASE GetSubscriberByEmail(e) = {}
      <3> DEFINE q == [pc |-> "insert", email |-> e, id |-> 0, tags |-> tags]
      <3>1. Keep(r, q) /\ Fits(q) /\ q.pc = "insert"
        BY <2>1, <2>3 DEF Fits, Request, Holder
      <3> HIDE DEF q
      <3> QED
        BY <1>1, <1>h, <3>1 DEF Subscribe, Ask, Idle
    <2> QED
      BY <2>2, <2>3
  <1>2. CASE Reload(r)
    <2>1. req[r].pc = "reload" /\ req[r].email \in Emails /\ req[r].tags \in SUBSET Tags
      BY <1>0, <1>2, Typed DEF Reload, AskedFor, Request
    <2>2. CASE GetSubscriberByEmail(req[r].email) # {}
      <3>1. Found(r, req[r].email, req[r].tags)
        BY <1>2, <2>2 DEF Reload
      <3>2. PICK q : /\ Keep(r, q) /\ Fits(q)
                     /\ q.pc \in {"idle", "reset", "fill", "tags"}
                     /\ q.pc # "idle" => Present(q.id) /\ subs[q.id].email = q.email
                     /\ q.pc = "tags" => subs[q.id].token # 0
        BY <2>1, <3>1, FoundRequest
      <3> QED
        BY <1>2, <1>h, <2>1, <3>2 DEF Reload
    <2>3. CASE GetSubscriberByEmail(req[r].email) = {}
      BY <1>2, <1>k, <2>1, <2>3 DEF Reload
    <2> QED
      BY <2>2, <2>3
  <1>3. CASE FollowConfirmLink(r)
    <2>1. /\ req[r] = Idle
          /\ UNCHANGED <<runVars, subs, tokens, consent, inbox, letters, abandoned>>
      BY <1>3 DEF FollowConfirmLink, Ask
    <2>2. \/ Keep(r, Idle)
          \/ \E i \in SubIds : /\ subs[i].token # 0
                /\ Keep(r, [Idle EXCEPT !.pc = "confirm", !.email = subs[i].email, !.id = i])
      BY <1>3 DEF FollowConfirmLink
    <2>3. ASSUME NEW i \in SubIds, subs[i].token # 0,
                 Keep(r, [Idle EXCEPT !.pc = "confirm", !.email = subs[i].email, !.id = i])
          PROVE  \E q : /\ Keep(r, q) /\ Fits(q) /\ q.pc # "enqueue"
                        /\ q.pc \in Holder => Present(q.id) /\ subs[q.id].email = q.email
                        /\ q.pc = "tags" => subs[q.id].token # 0
      <3> DEFINE q == [Idle EXCEPT !.pc = "confirm", !.email = subs[i].email, !.id = i]
      <3>1. Present(i) /\ subs[i].email \in Emails
        BY <1>0, <2>3, RowOf DEF Present, Subscriber
      <3>2. Fits(q) /\ q.pc = "confirm" /\ q.id = i /\ q.email = subs[i].email
        BY <3>1, IdleFits DEF Fits, Request
      <3>3. Keep(r, q)
        BY <2>3
      <3> HIDE DEF q
      <3> QED
        BY <3>1, <3>2, <3>3
    <2> QED
      BY <1>i, <1>k, <2>1, <2>2, <2>3
  <1>4. CASE FollowUnsubscribeLink(r)
    <2>1. /\ req[r] = Idle
          /\ UNCHANGED <<runVars, subs, tokens, consent, inbox, letters, abandoned>>
      BY <1>4 DEF FollowUnsubscribeLink, Ask
    <2>2. \/ Keep(r, Idle)
          \/ \E i \in SubIds : /\ subs[i].leave # 0
                /\ Keep(r, [Idle EXCEPT !.pc = "unsubscribe", !.email = subs[i].email, !.id = i])
      BY <1>4 DEF FollowUnsubscribeLink
    <2>3. ASSUME NEW i \in SubIds, subs[i].leave # 0,
                 Keep(r, [Idle EXCEPT !.pc = "unsubscribe", !.email = subs[i].email, !.id = i])
          PROVE  \E q : /\ Keep(r, q) /\ Fits(q) /\ q.pc # "enqueue"
                        /\ q.pc \in Holder => Present(q.id) /\ subs[q.id].email = q.email
                        /\ q.pc = "tags" => subs[q.id].token # 0
      <3> DEFINE q == [Idle EXCEPT !.pc = "unsubscribe", !.email = subs[i].email, !.id = i]
      <3>1. Present(i) /\ subs[i].email \in Emails
        BY <1>0, <2>3, RowOf DEF Present, Subscriber
      <3>2. Fits(q) /\ q.pc = "unsubscribe" /\ q.id = i /\ q.email = subs[i].email
        BY <3>1, IdleFits DEF Fits, Request
      <3>3. Keep(r, q)
        BY <2>3
      <3> HIDE DEF q
      <3> QED
        BY <3>1, <3>2, <3>3
    <2> QED
      BY <1>i, <1>k, <2>1, <2>2, <2>3
  <1>5. CASE BatchCreate(r)
    <2>1. /\ req[r] = Idle
          /\ UNCHANGED <<runVars, subs, tokens, consent, inbox, letters, abandoned>>
      BY <1>5 DEF BatchCreate, Ask
    <2>2. PICK e \in Emails, tags \in SUBSET Tags :
            LET ids == GetSubscriberByEmail(e)
                line == [pc |-> "create", email |-> e, id |-> 0, tags |-> tags] IN
            Keep(r, IF ids = {} THEN line
                    ELSE IF tags = {} THEN Idle
                    ELSE [line EXCEPT !.pc = "setTags", !.id = CHOOSE i \in ids : TRUE])
      BY <1>5 DEF BatchCreate
    <2>3. CASE GetSubscriberByEmail(e) = {}
      <3> DEFINE q == [pc |-> "create", email |-> e, id |-> 0, tags |-> tags]
      <3>1. Keep(r, q) /\ Fits(q) /\ q.pc = "create"
        BY <2>2, <2>3 DEF Fits, Request, Holder
      <3> HIDE DEF q
      <3> QED
        BY <1>h, <1>i, <2>1, <3>1
    <2>4. CASE GetSubscriberByEmail(e) # {} /\ tags = {}
      <3>1. Keep(r, Idle)
        BY <2>2, <2>4
      <3> QED
        BY <1>i, <1>k, <2>1, <3>1
    <2>5. CASE GetSubscriberByEmail(e) # {} /\ tags # {}
      <3> DEFINE i == CHOOSE j \in GetSubscriberByEmail(e) : TRUE
                 q == [pc |-> "setTags", email |-> e, id |-> i, tags |-> tags]
      <3>1. i \in GetSubscriberByEmail(e)
        BY <2>5
      <3>2. Keep(r, q)
        BY <2>2, <2>5
      <3> HIDE DEF i
      <3>3. i \in SubIds /\ subs[i].email = e
        BY <3>1 DEF GetSubscriberByEmail
      <3>4. Present(i)
        BY <1>0, <3>3, RowOf DEF Present
      <3>5. Fits(q) /\ q.pc = "setTags" /\ q.id = i /\ q.email = e
        BY <3>3 DEF Fits, Request, Holder
      <3> HIDE DEF q
      <3> QED
        BY <1>i, <2>1, <3>2, <3>3, <3>4, <3>5
    <2> QED
      BY <2>3, <2>4, <2>5
  <1>6. CASE BatchConfirm(r)
    <2>1. /\ req[r] = Idle
          /\ UNCHANGED <<runVars, subs, tokens, consent, inbox, letters, abandoned>>
      BY <1>6 DEF BatchConfirm, Ask
    <2>2. PICK i \in SubIds :
            /\ Present(i)
            /\ Keep(r, [Idle EXCEPT !.pc = "vouch", !.email = subs[i].email, !.id = i])
      BY <1>6 DEF BatchConfirm
    <2> DEFINE q == [Idle EXCEPT !.pc = "vouch", !.email = subs[i].email, !.id = i]
    <2>3. subs[i].email \in Emails
      BY <1>0, <2>2, RowOf DEF Present, Subscriber
    <2>4. Keep(r, q)
      BY <2>2
    <2>5. Fits(q) /\ q.pc = "vouch" /\ q.id = i /\ q.email = subs[i].email
      BY <2>3, IdleFits DEF Fits, Request
    <2> HIDE DEF q
    <2> QED
      BY <1>i, <2>1, <2>2, <2>4, <2>5
  <1>7. CASE Insert(r) /\ GetSubscriberByEmail(req[r].email) # {}
    <2>1. /\ req[r].pc = "insert" /\ Goto(r, "reload")
          /\ UNCHANGED <<runVars, subs, tokens, consent, inbox, letters, abandoned>>
      BY <1>7 DEF Insert
    <2> DEFINE q == [req[r] EXCEPT !.pc = "reload"]
    <2>2. Keep(r, q)
      BY <2>1 DEF Goto
    <2>3. Fits(q) /\ q.pc = "reload"
      BY <1>0, <2>1, Typed DEF AskedFor, Fits, Request, Holder
    <2> HIDE DEF q
    <2> QED
      BY <1>h, <2>1, <2>2, <2>3
  <1>8. CASE BatchInsert(r) /\ GetSubscriberByEmail(req[r].email) # {}
    <2>1. /\ req[r].pc = "create" /\ Keep(r, Idle)
          /\ UNCHANGED <<runVars, subs, tokens, consent, inbox, letters, abandoned>>
      BY <1>8 DEF BatchInsert
    <2> QED
      BY <1>k, <2>1
  <1> QED
    BY <1>1, <1>2, <1>3, <1>4, <1>5, <1>6, <1>7, <1>8 DEF ReadStep

LEMMA ReadTypes ==
    ASSUME Types, NEW r \in Requests, ReadStep(r), UNCHANGED newsVars
    PROVE  Types'
  <1>1. UNCHANGED <<runVars, subs, tokens, consent, inbox, letters, abandoned>>
    BY ReadRequest
  <1>2. PICK q : Keep(r, q) /\ Fits(q)
    BY ReadRequest
  <1>3. RunInv'
    BY <1>1, Typed, SameRun
  <1> QED
    BY <1>1, <1>2, <1>3, Typed, RequestStep

-----------------------------------------------------------------------------
(* The requests that write.                                                *)

LEMMA HolderRow ==
    ASSUME Types, NEW r \in Requests, req[r].pc \in Holder
    PROVE  /\ req[r].id \in SubIds /\ req[r].email \in Emails /\ req[r] \in Request
           /\ Rows(subs) /\ (Present(req[r].id) => subs[req[r].id] \in Subscriber)
  <1>1. req[r].id \in SubIds /\ req[r].email \in Emails /\ req[r] \in Request /\ Rows(subs)
    BY Typed DEF AskedFor, Holder
  <1> QED
    BY <1>1, RowOf DEF Present

(* An UPDATE of the row the request holds. *)
Updates(r) ==
    /\ Rows(subs') /\ tokens' \in 1..MaxTokens
    /\ UNCHANGED <<runVars, inbox, letters, abandoned>>
    /\ \A j \in SubIds \ {req[r].id} : subs'[j] = subs[j]
    /\ Present(req[r].id) =>
        subs'[req[r].id] \in Subscriber /\ subs'[req[r].id].email = subs[req[r].id].email

LEMMA UpdateTypes ==
    ASSUME Types, NEW r \in Requests, Updates(r), NEW q, Fits(q), Keep(r, q),
           consent' \subseteq Emails, UNCHANGED newsVars
    PROVE  Types'
  <1>1. RunInv' /\ abandoned' \subseteq SubIds
    BY Typed, SameRun DEF Updates
  <1> QED
    BY <1>1, RequestStep DEF Updates

LEMMA RenewWrites ==
    ASSUME Types, NEW r \in Requests, Renew(r)
    PROVE  /\ Updates(r) /\ UNCHANGED consent
           /\ req[r].pc \in {"reset", "fill"}
           /\ Keep(r, [req[r] EXCEPT !.pc = "tags"]) /\ Fits([req[r] EXCEPT !.pc = "tags"])
           /\ Present(req[r].id) =>
                /\ subs'[req[r].id].token # 0
                /\ Active(subs'[req[r].id]) => Active(subs[req[r].id])
  <1> DEFINE i == req[r].id
             reset == [subs[i] EXCEPT !.token = tokens + 1, !.confirmed = FALSE,
                                      !.unsubscribed = FALSE]
             fill == [subs[i] EXCEPT !.token = tokens + 1]
  <1>1. req[r].pc \in {"reset", "fill"} /\ req[r].pc \in Holder
    BY DEF Renew, Holder
  <1>2. i \in SubIds /\ Rows(subs) /\ (Present(i) => subs[i] \in Subscriber)
    BY <1>1, HolderRow
  <1>3. tokens' \in 1..MaxTokens /\ tokens + 1 \in 0..MaxTokens /\ tokens + 1 # 0
    BY Typed, SubscriptionsAssumption DEF Renew, NewToken
  <1>4. ASSUME Present(i)
        PROVE  /\ reset \in Subscriber /\ reset.email = subs[i].email /\ reset.token # 0
               /\ ~reset.confirmed
               /\ fill \in Subscriber /\ fill.email = subs[i].email /\ fill.token # 0
               /\ fill.confirmed = subs[i].confirmed /\ fill.unsubscribed = subs[i].unsubscribed
    BY <1>2, <1>3, <1>4 DEF Subscriber
  <1>5. subs' = Set(i, reset) \/ subs' = Set(i, fill)
    BY DEF Renew, ResetSubscriberForResubscribe, SetSubscriberConfirmationToken
  <1>6. Keep(r, [req[r] EXCEPT !.pc = "tags"]) /\ Fits([req[r] EXCEPT !.pc = "tags"])
    BY <1>1, GotoFits DEF Renew, Goto
  <1>7. UNCHANGED <<runVars, inbox, letters, abandoned, consent>>
    BY DEF Renew
  <1> HIDE DEF reset, fill
  <1>8. /\ Rows(subs') /\ \A j \in SubIds \ {i} : subs'[j] = subs[j]
        /\ Present(i) => subs'[i] = reset \/ subs'[i] = fill
    BY <1>2, <1>4, <1>5, SetRows
  <1>9. Updates(r)
    BY <1>3, <1>4, <1>7, <1>8 DEF Updates
  <1> QED
    BY <1>1, <1>4, <1>6, <1>7, <1>8, <1>9 DEF Active

LEMMA TagWrites ==
    ASSUME Types, NEW r \in Requests, ChooseTags(r) \/ SetTags(r)
    PROVE  /\ Updates(r) /\ UNCHANGED consent
           /\ Present(req[r].id) =>
                /\ subs'[req[r].id].token = subs[req[r].id].token
                /\ subs'[req[r].id].confirmed = subs[req[r].id].confirmed
                /\ subs'[req[r].id].unsubscribed = subs[req[r].id].unsubscribed
           /\ \/ req[r].pc = "setTags" /\ Keep(r, Idle)
              \/ req[r].pc = "tags" /\ ~Present(req[r].id) /\ Keep(r, Idle)
              \/ /\ req[r].pc = "tags" /\ Keep(r, [req[r] EXCEPT !.pc = "enqueue"])
                 /\ Fits([req[r] EXCEPT !.pc = "enqueue"])
  <1> DEFINE i == req[r].id
             row == [subs[i] EXCEPT !.tags = req[r].tags]
  <1>1. req[r].pc \in {"tags", "setTags"} /\ req[r].pc \in Holder
    BY DEF ChooseTags, SetTags, Holder
  <1>2. i \in SubIds /\ Rows(subs) /\ (Present(i) => subs[i] \in Subscriber)
        /\ req[r].tags \in SUBSET Tags
    BY <1>1, HolderRow DEF Request
  <1>3. ASSUME Present(i)
        PROVE  /\ row \in Subscriber /\ row.email = subs[i].email /\ row.token = subs[i].token
               /\ row.confirmed = subs[i].confirmed /\ row.unsubscribed = subs[i].unsubscribed
    BY <1>2, <1>3 DEF Subscriber
  <1>4. subs' = Set(i, row)
    BY DEF ChooseTags, SetTags, ReplaceTags
  <1>5. UNCHANGED <<runVars, tokens, inbox, letters, abandoned, consent>>
    BY DEF ChooseTags, SetTags
  <1>6. \/ req[r].pc = "setTags" /\ Keep(r, Idle)
        \/ req[r].pc = "tags" /\ ~Present(i) /\ Keep(r, Idle)
        \/ req[r].pc = "tags" /\ Keep(r, [req[r] EXCEPT !.pc = "enqueue"])
    BY DEF ChooseTags, SetTags, ReplaceTags, Goto
  <1>7. Fits([req[r] EXCEPT !.pc = "enqueue"])
    BY <1>1, GotoFits
  <1> HIDE DEF row
  <1>8. /\ Rows(subs') /\ \A j \in SubIds \ {i} : subs'[j] = subs[j]
        /\ Present(i) => subs'[i] = row
    BY <1>2, <1>3, <1>4, SetRows
  <1>9. Updates(r)
    BY <1>3, <1>5, <1>8, Typed DEF Updates
  <1> QED
    BY <1>3, <1>5, <1>6, <1>7, <1>8, <1>9

LEMMA ConfirmWrites ==
    ASSUME Types, NEW r \in Requests, Confirm(r) \/ Vouch(r)
    PROVE  /\ Updates(r) /\ consent' = consent \cup {req[r].email} /\ consent' \subseteq Emails
           /\ req[r].pc \in {"confirm", "vouch", "autoConfirm"}
           /\ Present(req[r].id) =>
                /\ subs'[req[r].id].token = subs[req[r].id].token
                /\ subs'[req[r].id].confirmed
           /\ \E q : Keep(r, q) /\ Fits(q) /\ q.id \in {0, req[r].id} /\ q.email \in {NoEmail, req[r].email}
                     /\ q.pc \in {"idle", "setTags"} /\ (q.pc = "setTags" => q.id = req[r].id /\ q.email = req[r].email)
  <1> DEFINE i == req[r].id
             row == [subs[i] EXCEPT !.confirmed = TRUE]
  <1>1. req[r].pc \in {"confirm", "vouch", "autoConfirm"} /\ req[r].pc \in Holder
    BY DEF Confirm, Vouch, Holder
  <1>2. i \in SubIds /\ Rows(subs) /\ (Present(i) => subs[i] \in Subscriber)
        /\ req[r].email \in Emails /\ req[r] \in Request
    BY <1>1, HolderRow
  <1>3. ASSUME Present(i)
        PROVE  /\ row \in Subscriber /\ row.email = subs[i].email /\ row.token = subs[i].token
               /\ row.confirmed
    BY <1>2, <1>3 DEF Subscriber
  <1>4. subs' = Set(i, row)
    BY DEF Confirm, Vouch, ConfirmSubscriber
  <1>5. /\ UNCHANGED <<runVars, tokens, inbox, letters, abandoned>>
        /\ consent' = consent \cup {req[r].email}
    BY DEF Confirm, Vouch
  <1>6. Keep(r, Idle) \/ Keep(r, [req[r] EXCEPT !.pc = "setTags"])
    BY DEF Confirm, Vouch, Goto
  <1>7. \E q : Keep(r, q) /\ Fits(q) /\ q.id \in {0, req[r].id} /\ q.email \in {NoEmail, req[r].email}
               /\ q.pc \in {"idle", "setTags"} /\ (q.pc = "setTags" => q.id = req[r].id /\ q.email = req[r].email)
    <2>1. CASE Keep(r, Idle)
      BY <2>1, IdleFits DEF Idle
    <2>2. CASE Keep(r, [req[r] EXCEPT !.pc = "setTags"])
      <3> DEFINE q == [req[r] EXCEPT !.pc = "setTags"]
      <3>1. Fits(q) /\ q.pc = "setTags" /\ q.id = req[r].id /\ q.email = req[r].email
        BY <1>1, <1>2, GotoFits DEF Request
      <3>2. Keep(r, q)
        BY <2>2
      <3> HIDE DEF q
      <3> QED
        BY <3>1, <3>2
    <2> QED
      BY <1>6, <2>1, <2>2
  <1> HIDE DEF row
  <1>8. /\ Rows(subs') /\ \A j \in SubIds \ {i} : subs'[j] = subs[j]
        /\ Present(i) => subs'[i] = row
    BY <1>2, <1>3, <1>4, SetRows
  <1>9. Updates(r) /\ consent' \subseteq Emails
    BY <1>2, <1>3, <1>5, <1>8, Typed DEF Updates
  <1> QED
    BY <1>1, <1>3, <1>5, <1>7, <1>8, <1>9

LEMMA UnsubscribeWrites ==
    ASSUME Types, NEW r \in Requests, Unsubscribe(r)
    PROVE  /\ Updates(r) /\ consent' = consent \ {req[r].email} /\ consent' \subseteq Emails
           /\ req[r].pc = "unsubscribe" /\ Keep(r, Idle)
           /\ Present(req[r].id) =>
                /\ subs'[req[r].id].token = subs[req[r].id].token
                /\ subs'[req[r].id].unsubscribed
  <1> DEFINE i == req[r].id
             row == [subs[i] EXCEPT !.unsubscribed = TRUE]
  <1>1. req[r].pc = "unsubscribe" /\ req[r].pc \in Holder
    BY DEF Unsubscribe, Holder
  <1>2. i \in SubIds /\ Rows(subs) /\ (Present(i) => subs[i] \in Subscriber)
    BY <1>1, HolderRow
  <1>3. ASSUME Present(i)
        PROVE  /\ row \in Subscriber /\ row.email = subs[i].email /\ row.token = subs[i].token
               /\ row.unsubscribed
    BY <1>2, <1>3 DEF Subscriber
  <1>4. /\ subs' = Set(i, row) /\ UNCHANGED <<runVars, tokens, inbox, letters, abandoned>>
        /\ consent' = consent \ {req[r].email} /\ Keep(r, Idle)
    BY DEF Unsubscribe, UnsubscribeSubscriber
  <1> HIDE DEF row
  <1>8. /\ Rows(subs') /\ \A j \in SubIds \ {i} : subs'[j] = subs[j]
        /\ Present(i) => subs'[i] = row
    BY <1>2, <1>3, <1>4, SetRows
  <1>9. Updates(r) /\ consent' \subseteq Emails
    BY <1>3, <1>4, <1>8, Typed DEF Updates
  <1> QED
    BY <1>1, <1>3, <1>4, <1>8, <1>9

(* An insert that succeeds. *)
CreateStep(r) == (Insert(r) \/ BatchInsert(r)) /\ GetSubscriberByEmail(req[r].email) = {}

LEMMA CreateWrites ==
    ASSUME Types, NEW r \in Requests, CreateStep(r)
    PROVE  /\ Rows(subs') /\ tokens' \in 1..MaxTokens
           /\ UNCHANGED <<runVars, inbox, letters, abandoned, consent>>
           /\ req[r].pc \in {"insert", "create"}
           /\ \E i \in SubIds, q \in Request :
                /\ ~Present(i) /\ \A j \in SubIds \ {i} : subs'[j] = subs[j]
                /\ subs'[i] \in Subscriber /\ subs'[i].email = req[r].email
                /\ subs'[i].token # 0 /\ ~subs'[i].confirmed
                /\ Keep(r, q) /\ Fits(q) /\ q.id = i /\ q.email = req[r].email
                /\ q.pc \in {"tags", "autoConfirm"}
  <1>1. /\ req[r].pc \in {"insert", "create"} /\ req[r].email \in Emails /\ req[r] \in Request
        /\ GetSubscriberByEmail(req[r].email) = {}
    BY Typed DEF CreateStep, Insert, BatchInsert, AskedFor
  <1>2. UNCHANGED <<runVars, inbox, letters, abandoned, consent>>
    BY DEF CreateStep, Insert, BatchInsert
  <1>3. PICK i \in SubIds, pc \in {"tags", "autoConfirm"} :
          /\ IsNextSubId(i) /\ NewToken /\ subs' = CreateSubscriber(i, req[r].email)
          /\ Keep(r, [req[r] EXCEPT !.pc = pc, !.id = i])
    BY <1>1 DEF CreateStep, Insert, BatchInsert
  <1> DEFINE q == [req[r] EXCEPT !.pc = pc, !.id = i]
  <1>4. q \in Request /\ Fits(q) /\ q.id = i /\ q.pc = pc /\ q.email = req[r].email
    BY <1>1, <1>3 DEF Fits, Request
  <1>5. Keep(r, q)
    BY <1>3
  <1> HIDE DEF q
  <1>6. /\ Rows(subs') /\ tokens' \in 1..MaxTokens
        /\ ~Present(i) /\ \A j \in SubIds \ {i} : subs'[j] = subs[j]
        /\ subs'[i] \in Subscriber /\ subs'[i].email = req[r].email
        /\ subs'[i].token # 0 /\ ~subs'[i].confirmed
    BY <1>1, <1>3, CreateRows
  <1> QED
    BY <1>1, <1>2, <1>4, <1>5, <1>6

LEMMA EnqueueWrites ==
    ASSUME Types, NEW r \in Requests, EnqueueConfirmation(r)
    PROVE  /\ RunInv' /\ Keep(r, Idle) /\ req[r].pc = "enqueue"
           /\ abandoned' = abandoned \ {req[r].id}
           /\ UNCHANGED <<runner, subs, tokens, consent, inbox, letters>>
           /\ \E j \in JobIds :
                /\ jobs[j] = NoRow /\ jobs'[j].kind = ConfirmationJob(req[r].id)
                /\ jobs'[j].status = "queued"
                /\ \A k \in JobIds \ {j} : jobs'[k] = jobs[k]
  <1>1. req[r].pc = "enqueue" /\ req[r].id \in SubIds
    BY HolderRow DEF EnqueueConfirmation, Holder
  <1>2. /\ Keep(r, Idle) /\ abandoned' = abandoned \ {req[r].id}
        /\ UNCHANGED <<clock, runner, faults, crashes, subs, tokens, consent, inbox, letters>>
    BY DEF EnqueueConfirmation
  <1>3. PICK j \in JobIds :
          /\ IsNextRowId(jobs, j)
          /\ jobs' = EnqueueJobRun(jobs, j, ConfirmationJob(req[r].id), clock, clock)
    BY DEF EnqueueConfirmation
  <1>4. RunInv /\ jobs \in JobTable /\ clock \in Nat /\ faults' \in 0..MaxFaults
        /\ ConfirmationJob(req[r].id) \in Kinds
    BY <1>1, <1>2, Typed, MailAssumption DEF RunInv, RunTypeOK
  <1>5. RunInv'
    BY <1>2, <1>3, <1>4, EnqueueInv
  <1>6. /\ jobs[j] = NoRow
        /\ jobs'[j] = [kind |-> ConfirmationJob(req[r].id), status |-> "queued", runAt |-> clock,
                       attempts |-> 0, updatedAt |-> clock]
        /\ \A k \in JobIds \ {j} : jobs'[k] = jobs[k]
    BY <1>3, <1>4, EnqueueRows
  <1> QED
    BY <1>1, <1>2, <1>5, <1>6

LEMMA FaultCounted ==
    ASSUME Types
    PROVE  /\ faults \in 0..MaxFaults /\ crashes \in 0..MaxCrashes
           /\ faults < MaxFaults => faults + 1 \in 0..MaxFaults
           /\ crashes < MaxCrashes => crashes + 1 \in 0..MaxCrashes
  BY Typed, HandlerRunsAssumption DEF RunInv, RunTypeOK

LEMMA FailureWrites ==
    ASSUME Types, NEW r \in Requests, RequestFails(r)
    PROVE  /\ RunInv' /\ Keep(r, Idle)
           /\ abandoned' = abandoned \cup ({req[r].id} \cap SubIds)
           /\ UNCHANGED <<jobs, runner, subs, tokens, consent, inbox, letters>>
  <1>1. faults' \in 0..MaxFaults
    BY FaultCounted DEF RequestFails
  <1> QED
    BY <1>1, Typed DEF RequestFails, RunInv, RunTypeOK, AttemptLeft, HeldRowRuns

(* The steps of the requests by what they write. *)
RequestSteps(r) ==
    \/ ReadStep(r) \/ CreateStep(r) \/ Renew(r) \/ (ChooseTags(r) \/ SetTags(r))
    \/ (Confirm(r) \/ Vouch(r)) \/ Unsubscribe(r) \/ EnqueueConfirmation(r) \/ RequestFails(r)

LEMMA RequestCases ==
    ASSUME NEW r \in Requests, SubscriberStep(r) \/ AdminListStep(r) \/ RequestFails(r)
    PROVE  RequestSteps(r)
  BY DEF SubscriberStep, AdminListStep, RequestSteps, ReadStep, CreateStep

LEMMA RequestTypes ==
    ASSUME Types, NEW r \in Requests, RequestSteps(r), UNCHANGED newsVars
    PROVE  Types'
  <1>0. Fits(Idle) /\ Rows(subs) /\ tokens \in 1..MaxTokens
        /\ consent \subseteq Emails /\ abandoned \subseteq SubIds
    BY IdleFits, Typed
  <1>1. CASE ReadStep(r)
    BY <1>1, ReadTypes
  <1>2. CASE CreateStep(r)
    <2>1. PICK q : Keep(r, q) /\ Fits(q)
      BY <1>2, CreateWrites
    <2>2. /\ Rows(subs') /\ tokens' \in 1..MaxTokens
          /\ UNCHANGED <<runVars, inbox, letters, abandoned, consent>>
      BY <1>2, CreateWrites
    <2>3. RunInv'
      BY <2>2, Typed, SameRun
    <2> QED
      BY <1>0, <2>1, <2>2, <2>3, RequestStep
  <1>3. CASE Renew(r)
    <2>1. /\ Updates(r) /\ UNCHANGED consent
          /\ Keep(r, [req[r] EXCEPT !.pc = "tags"]) /\ Fits([req[r] EXCEPT !.pc = "tags"])
      BY <1>3, RenewWrites
    <2> QED
      BY <1>0, <2>1, UpdateTypes
  <1>4. CASE ChooseTags(r) \/ SetTags(r)
    <2>1. Updates(r) /\ UNCHANGED consent
      BY <1>4, TagWrites
    <2>2. PICK q : Keep(r, q) /\ Fits(q)
      BY <1>0, <1>4, TagWrites
    <2> QED
      BY <1>0, <2>1, <2>2, UpdateTypes
  <1>5. CASE Confirm(r) \/ Vouch(r)
    <2>1. Updates(r) /\ consent' \subseteq Emails
      BY <1>5, ConfirmWrites
    <2>2. PICK q : Keep(r, q) /\ Fits(q)
      BY <1>5, ConfirmWrites
    <2> QED
      BY <2>1, <2>2, UpdateTypes
  <1>6. CASE Unsubscribe(r)
    <2>1. Updates(r) /\ consent' \subseteq Emails /\ Keep(r, Idle)
      BY <1>6, UnsubscribeWrites
    <2> QED
      BY <1>0, <2>1, UpdateTypes
  <1>7. CASE EnqueueConfirmation(r)
    <2>1. /\ RunInv' /\ Keep(r, Idle) /\ abandoned' = abandoned \ {req[r].id}
          /\ UNCHANGED <<runner, subs, tokens, consent, inbox, letters>>
      BY <1>7, EnqueueWrites
    <2> QED
      BY <1>0, <2>1, RequestStep
  <1>8. CASE RequestFails(r)
    <2>1. /\ RunInv' /\ Keep(r, Idle) /\ abandoned' = abandoned \cup ({req[r].id} \cap SubIds)
          /\ UNCHANGED <<jobs, runner, subs, tokens, consent, inbox, letters>>
      BY <1>8, FailureWrites
    <2> QED
      BY <1>0, <2>1, RequestStep
  <1> QED
    BY <1>1, <1>2, <1>3, <1>4, <1>5, <1>6, <1>7, <1>8 DEF RequestSteps

(* The other steps: no request moves. *)
LEMMA OtherStep ==
    ASSUME Types, RunInv', Rows(subs'), UNCHANGED <<tokens, req, consent>>,
           abandoned' \subseteq SubIds,
           inbox' \subseteq Emails \X (0..MaxTokens), letters' \subseteq Emails \X (0..MaxTokens),
           settings' \in Settings, article' \in (SUBSET Tags) \cup {Gone},
           sending' \subseteq [id : SubIds, email : Emails, leave : 0..MaxTokens],
           delivered' \in [Emails -> Nat], campaigns' \in Nat, interrupted' \in Nat
    PROVE  Types'
  <1>1. AskedFor'
    BY Typed DEF AskedFor
  <1>2. SubTypeOK'
    BY Typed DEF SubTypeOK, Rows, Present
  <1> QED
    BY <1>1, <1>2 DEF Types, TypeOK, RunInv

LEMMA DestroyWrites ==
    ASSUME Types, Destroy
    PROVE  /\ Rows(subs') /\ UNCHANGED <<runVars, tokens, req, consent, inbox, letters>>
           /\ \E i \in SubIds :
                /\ DestroyRaces \/ \A r \in Requests : req[r].id # i
                /\ subs'[i] = NoSub /\ \A j \in SubIds \ {i} : subs'[j] = subs[j]
                /\ abandoned' = abandoned \ {i}
  <1>1. PICK i \in SubIds :
          /\ DestroyRaces \/ \A r \in Requests : req[r].id # i
          /\ subs' = [subs EXCEPT ![i] = NoSub] /\ abandoned' = abandoned \ {i}
    BY DEF Destroy
  <1>2. Rows(subs)
    BY Typed
  <1>3. /\ subs' \in [SubIds -> Subscriber \cup {NoSub}] /\ subs'[i] = NoSub
        /\ \A j \in SubIds \ {i} : subs'[j] = subs[j]
    BY <1>1, <1>2 DEF Rows
  <1>4. ASSUME NEW j \in SubIds, NEW k \in SubIds, subs'[j] # NoSub,
               subs'[j].email = subs'[k].email
        PROVE  j = k
    <2>1. j # i /\ subs'[j] = subs[j] /\ subs[j] # NoSub /\ subs[j].email \in Emails
      BY <1>2, <1>3, <1>4, RowOf DEF Subscriber
    <2>2. k # i
      BY <1>3, <1>4, <2>1, MailAssumption DEF NoSub
    <2> QED
      BY <1>2, <1>3, <1>4, <2>1, <2>2 DEF Rows
  <1> QED
    BY <1>1, <1>3, <1>4 DEF Destroy, Rows

LEMMA SettingsWrites ==
    ASSUME Types, UpdateNewsletterSetting \/ UpdateListmonk
    PROVE  /\ settings' \in Settings
           /\ UNCHANGED <<runVars, subs, tokens, req, consent, inbox, letters, abandoned,
                          article, sending, delivered, campaigns, interrupted>>
  <1>1. settings \in Settings
    BY Typed
  <1> QED
    BY <1>1 DEF UpdateNewsletterSetting, UpdateListmonk, Settings

LEMMA IssueRequested ==
    ASSUME Types, RequestIssue
    PROVE  /\ RunInv' /\ UNCHANGED <<runner, subVars, newsVars>>
           /\ \A j \in JobIds : jobs[j].kind # Issue
           /\ \E j \in JobIds :
                /\ jobs[j] = NoRow /\ jobs'[j].kind = Issue /\ jobs'[j].status = "queued"
                /\ \A k \in JobIds \ {j} : jobs'[k] = jobs[k]
  <1>1. /\ UNCHANGED <<clock, runner, faults, crashes, subVars, newsVars>>
        /\ \A j \in JobIds : jobs[j].kind # Issue
    BY DEF RequestIssue
  <1>2. PICK j \in JobIds : IsNextRowId(jobs, j) /\ jobs' = EnqueueJobRun(jobs, j, Issue, clock, clock)
    BY DEF RequestIssue
  <1>3. RunInv /\ jobs \in JobTable /\ clock \in Nat /\ faults' \in 0..MaxFaults /\ Issue \in Kinds
    BY <1>1, Typed, NewsletterAssumption DEF RunInv, RunTypeOK
  <1>4. RunInv'
    BY <1>1, <1>2, <1>3, EnqueueInv
  <1>5. /\ jobs[j] = NoRow
        /\ jobs'[j] = [kind |-> Issue, status |-> "queued", runAt |-> clock,
                       attempts |-> 0, updatedAt |-> clock]
        /\ \A k \in JobIds \ {j} : jobs'[k] = jobs[k]
    BY <1>2, <1>3, EnqueueRows
  <1> QED
    BY <1>1, <1>4, <1>5

LEMMA WebTypes ==
    ASSUME Types, WebStep
    PROVE  Types'
  <1>0. RunInv /\ Rows(subs)
    BY Typed
  <1>1. CASE \E r \in Requests : (SubscriberStep(r) \/ AdminListStep(r) \/ RequestFails(r))
                                 /\ UNCHANGED newsVars
    BY <1>1, RequestCases, RequestTypes
  <1>2. CASE Destroy /\ UNCHANGED newsVars
    <2>1. Rows(subs') /\ UNCHANGED <<runVars, tokens, req, consent, inbox, letters>>
          /\ abandoned' \subseteq SubIds
      BY <1>2, DestroyWrites, Typed
    <2>2. RunInv'
      BY <1>0, <2>1, SameRun
    <2> QED
      BY <1>2, <2>1, <2>2, Typed, OtherStep DEF newsVars
  <1>3. CASE UpdateNewsletterSetting \/ UpdateListmonk
    <2>1. /\ settings' \in Settings
          /\ UNCHANGED <<runVars, subs, tokens, req, consent, inbox, letters, abandoned,
                         article, sending, delivered, campaigns, interrupted>>
      BY <1>3, SettingsWrites
    <2>2. RunInv'
      BY <1>0, <2>1, SameRun
    <2> QED
      BY <2>1, <2>2, Typed, OtherStep
  <1>4. CASE RequestIssue
    <2>1. RunInv' /\ UNCHANGED <<subVars, newsVars>>
      BY <1>4, IssueRequested
    <2> QED
      BY <2>1, Typed, OtherStep DEF subVars, newsVars
  <1>5. CASE DestroyArticle
    <2>1. RunInv'
      BY <1>0, <1>5, SameRun DEF DestroyArticle
    <2>2. article' \in (SUBSET Tags) \cup {Gone}
          /\ UNCHANGED <<subs, tokens, req, consent, inbox, letters, abandoned,
                         settings, sending, delivered, campaigns, interrupted>>
      BY <1>5 DEF DestroyArticle, subVars
    <2> QED
      BY <2>1, <2>2, Typed, OtherStep
  <1> QED
    BY <1>1, <1>2, <1>3, <1>4, <1>5 DEF WebStep

-----------------------------------------------------------------------------
(* The handlers.                                                           *)

Returned(o) == runner'.pc = "book" /\ runner'.id = runner.id /\ runner'.outcome = o

LEMMA ReturnInv ==
    ASSUME Types, runner.pc \in Holds, NEW o \in {"ok", "error", "canceled"}, Return(o),
           UNCHANGED <<clock, jobs>>, faults' \in 0..MaxFaults, crashes' \in 0..MaxCrashes
    PROVE  RunInv' /\ Returned(o)
  <1>1. RunInv /\ "book" \in Holds
    BY Typed DEF Holds
  <1>a. runner' = [runner EXCEPT !.pc = "book", !.outcome = o]
    BY DEF Return
  <1>2. runner' \in Runner /\ runner'.pc = "book" /\ runner'.id = runner.id /\ runner'.outcome = o
    BY <1>1, <1>a DEF RunInv, RunTypeOK, Runner
  <1> QED
    BY <1>1, <1>2, HandlerStepInv DEF Returned

LEMMA MoveInv ==
    ASSUME Types, runner.pc \in Holds, NEW pc \in Holds, runner' = [runner EXCEPT !.pc = pc],
           UNCHANGED <<clock, jobs, faults, crashes>>
    PROVE  RunInv' /\ runner'.pc = pc /\ runner'.id = runner.id
  <1>1. RunInv
    BY Typed
  <1>2. runner' \in Runner /\ runner'.pc = pc /\ runner'.id = runner.id
    BY <1>1, Moved
  <1> QED
    BY <1>1, <1>2, FaultCounted, HandlerStepInv

LEMMA ConfirmationMoves ==
    ASSUME Types, SendConfirmation \/ ConfirmationFails
    PROVE  /\ Types' /\ runner.pc \in Holds \ {"book"} /\ UNCHANGED <<jobs, newsVars>>
           /\ UNCHANGED <<subs, tokens, req, consent, abandoned>>
           /\ \E i \in SubIds :
                /\ jobs[runner.id].kind = ConfirmationJob(i)
                /\ \/ /\ Returned("ok") /\ inbox \subseteq inbox'
                      /\ Present(i) => <<subs[i].email, subs[i].token>> \in inbox'
                   \/ Returned("error") /\ UNCHANGED inbox
                   \/ Returned("canceled") /\ UNCHANGED inbox
  <1>0. RunInv /\ Rows(subs) /\ inbox \subseteq Emails \X (0..MaxTokens)
    BY Typed
  <1>1. CASE SendConfirmation
    <2>1. PICK i \in SubIds :
            /\ Running(ConfirmationJob(i))
            /\ inbox' = IF Present(i) THEN inbox \cup {<<subs[i].email, subs[i].token>>} ELSE inbox
      BY <1>1 DEF SendConfirmation
    <2>2. /\ runner.pc \in Holds \ {"book"} /\ jobs[runner.id].kind = ConfirmationJob(i)
      BY <2>1 DEF Running, Holds
    <2>3. /\ Return("ok") /\ UNCHANGED <<clock, jobs, faults, crashes, subs, tokens, req, consent,
                                         letters, abandoned, newsVars>>
      BY <1>1 DEF SendConfirmation
    <2>4. RunInv' /\ Returned("ok")
      BY <2>2, <2>3, FaultCounted, ReturnInv
    <2>5. Present(i) => subs[i].email \in Emails /\ subs[i].token \in 0..MaxTokens
      BY <1>0, RowOf DEF Present, Subscriber
    <2>6. inbox' \subseteq Emails \X (0..MaxTokens) /\ inbox \subseteq inbox'
          /\ (Present(i) => <<subs[i].email, subs[i].token>> \in inbox')
      BY <1>0, <2>1, <2>5
    <2>7. Types'
      BY <1>0, <2>3, <2>4, <2>6, Typed, OtherStep DEF newsVars
    <2> QED
      BY <2>2, <2>3, <2>4, <2>6, <2>7
  <1>2. CASE ConfirmationFails
    <2>1. PICK i \in SubIds : Running(ConfirmationJob(i))
      BY <1>2 DEF ConfirmationFails
    <2>2. /\ runner.pc \in Holds \ {"book"} /\ jobs[runner.id].kind = ConfirmationJob(i)
      BY <2>1 DEF Running, Holds
    <2>3. UNCHANGED <<clock, jobs, subVars, newsVars>> /\ (Return("error") \/ Return("canceled"))
      BY <1>2 DEF ConfirmationFails, ReturnError, Return
    <2>4. faults' \in 0..MaxFaults /\ crashes' \in 0..MaxCrashes
      BY <1>2, FaultCounted DEF ConfirmationFails, ReturnError
    <2>5. RunInv' /\ (Returned("error") \/ Returned("canceled"))
      BY <2>2, <2>3, <2>4, ReturnInv
    <2>6. UNCHANGED <<subs, tokens, req, consent, abandoned, inbox, letters>>
      BY <2>3 DEF subVars
    <2>7. Types'
      BY <1>0, <2>3, <2>5, <2>6, Typed, OtherStep DEF newsVars
    <2> QED
      BY <2>2, <2>3, <2>5, <2>6, <2>7
  <1> QED
    BY <1>1, <1>2

(* Reading the issue: the run returns, lists its recipients, or turns to   *)
(* listmonk.                                                               *)
LEMMA LoadCases ==
    ASSUME Types, LoadIssue
    PROVE  /\ runner.pc = "load" /\ jobs[runner.id].kind = Issue
           /\ UNCHANGED <<clock, jobs, faults, crashes, subVars, settings, article,
                          delivered, campaigns, interrupted>>
           /\ \/ (Return("ok") \/ Return("error")) /\ UNCHANGED sending
              \/ sending' = Recipients /\ runner' = [runner EXCEPT !.pc = "visit"]
              \/ UNCHANGED sending /\ runner' = [runner EXCEPT !.pc = "act"]
  <1>1. /\ runner.pc = "load" /\ jobs[runner.id].kind = Issue
        /\ UNCHANGED <<clock, jobs, faults, crashes, subVars, settings, article,
                       delivered, campaigns, interrupted>>
    BY DEF LoadIssue, Running
  <1>2. CASE article = Gone
    <2>1. Return(IF settings.provider = "native" THEN "error" ELSE "ok") /\ UNCHANGED sending
      BY <1>2 DEF LoadIssue
    <2> QED
      BY <1>1, <2>1
  <1>3. CASE article # Gone /\ ~SettingConfigured
    <2>1. Return("ok") /\ UNCHANGED sending
      BY <1>3 DEF LoadIssue
    <2> QED
      BY <1>1, <2>1
  <1>4. CASE article # Gone /\ SettingConfigured /\ settings.provider = "native"
    <2>1. sending' = Recipients /\ runner' = [runner EXCEPT !.pc = "visit"]
      BY <1>4 DEF LoadIssue
    <2> QED
      BY <1>1, <2>1
  <1>5. CASE article # Gone /\ SettingConfigured /\ settings.provider # "native"
    <2>1. UNCHANGED sending /\ runner' = [runner EXCEPT !.pc = "act"]
      BY <1>5 DEF LoadIssue
    <2> QED
      BY <1>1, <2>1
  <1> QED
    BY <1>2, <1>3, <1>4, <1>5

LEMMA RecipientTypes ==
    ASSUME Types
    PROVE  /\ Recipients \subseteq [id : SubIds, email : Emails, leave : 0..MaxTokens]
           /\ \A m, n \in Recipients : m.email = n.email => m = n
  <1>0. Rows(subs)
    BY Typed
  <1>1. ASSUME NEW i \in Relevant
        PROVE  i \in SubIds /\ subs[i] # NoSub /\ subs[i].email \in Emails /\ subs[i].leave \in 0..MaxTokens
    BY <1>0, RowOf DEF Relevant, Present, Subscriber
  <1>2. Recipients \subseteq [id : SubIds, email : Emails, leave : 0..MaxTokens]
    BY <1>1 DEF Recipients
  <1>3. ASSUME NEW m \in Recipients, NEW n \in Recipients, m.email = n.email
        PROVE  m = n
    <2>1. PICK i \in Relevant : m = [id |-> i, email |-> subs[i].email, leave |-> subs[i].leave]
      BY DEF Recipients
    <2>2. PICK j \in Relevant : n = [id |-> j, email |-> subs[j].email, leave |-> subs[j].leave]
      BY DEF Recipients
    <2>3. i = j
      BY <1>0, <1>1, <1>3, <2>1, <2>2 DEF Rows
    <2> QED
      BY <2>1, <2>2, <2>3
  <1> QED
    BY <1>2, <1>3

(* What every step of the issue's handler does. *)
IssueFrame ==
    /\ Types' /\ runner.pc \in Holds \ {"book"} /\ runner'.pc \in Holds /\ runner'.id = runner.id
    /\ UNCHANGED <<jobs, subs, tokens, req, consent, inbox, abandoned>>

LEMMA LoadMoves ==
    ASSUME Types, LoadIssue
    PROVE  /\ IssueFrame /\ UNCHANGED <<delivered, campaigns, interrupted>>
           /\ runner.pc = "load" /\ jobs[runner.id].kind = Issue
           /\ \/ Returned("ok") /\ UNCHANGED sending
              \/ Returned("error") /\ UNCHANGED sending
              \/ runner'.pc = "visit" /\ sending' = Recipients
              \/ runner'.pc = "act" /\ UNCHANGED sending
  <1>0. RunInv /\ Rows(subs) /\ runner.pc \in Holds \ {"book"}
        /\ sending \subseteq [id : SubIds, email : Emails, leave : 0..MaxTokens]
    BY Typed, LoadCases DEF Holds
  <1>1. UNCHANGED <<clock, jobs, faults, crashes, subs, tokens, req, consent, inbox, letters,
                    abandoned, settings, article, delivered, campaigns, interrupted>>
    BY LoadCases DEF subVars
  <1>2. /\ RunInv' /\ runner'.pc \in Holds /\ runner'.id = runner.id
        /\ \/ Returned("ok") /\ UNCHANGED sending
           \/ Returned("error") /\ UNCHANGED sending
           \/ runner'.pc = "visit" /\ sending' = Recipients
           \/ runner'.pc = "act" /\ UNCHANGED sending
    <2>1. CASE (Return("ok") \/ Return("error")) /\ UNCHANGED sending
      <3>1. RunInv' /\ (Returned("ok") \/ Returned("error"))
        BY <1>0, <1>1, <2>1, FaultCounted, ReturnInv
      <3> QED
        BY <2>1, <3>1 DEF Returned, Holds
    <2>2. CASE sending' = Recipients /\ runner' = [runner EXCEPT !.pc = "visit"]
      BY <1>0, <1>1, <2>2, MoveInv DEF Holds
    <2>3. CASE UNCHANGED sending /\ runner' = [runner EXCEPT !.pc = "act"]
      BY <1>0, <1>1, <2>3, MoveInv DEF Holds
    <2> QED
      BY <2>1, <2>2, <2>3, LoadCases
  <1>3. sending' \subseteq [id : SubIds, email : Emails, leave : 0..MaxTokens]
    BY <1>0, <1>2, RecipientTypes
  <1>4. Types'
    BY <1>0, <1>1, <1>2, <1>3, Typed, OtherStep
  <1> QED
    BY <1>0, <1>1, <1>2, <1>4, LoadCases DEF IssueFrame

LEMMA LoadFailMoves ==
    ASSUME Types, LoadIssueFails
    PROVE  /\ IssueFrame /\ UNCHANGED <<sending, delivered, campaigns, interrupted>>
           /\ runner.pc = "load" /\ jobs[runner.id].kind = Issue /\ Returned("error")
  <1>1. /\ runner.pc = "load" /\ jobs[runner.id].kind = Issue /\ Return("error")
        /\ UNCHANGED <<clock, jobs, crashes, subs, tokens, req, consent, inbox, letters,
                       abandoned, newsVars>>
    BY DEF LoadIssueFails, Running, subVars
  <1>2. faults' \in 0..MaxFaults /\ crashes' \in 0..MaxCrashes
    BY <1>1, FaultCounted DEF LoadIssueFails
  <1>3. RunInv' /\ Returned("error")
    BY <1>1, <1>2, ReturnInv DEF Holds
  <1>4. Types'
    BY <1>1, <1>3, Typed, OtherStep DEF newsVars
  <1> QED
    BY <1>1, <1>3, <1>4 DEF IssueFrame, Returned, Holds, newsVars

LEMMA SendMoves ==
    ASSUME Types, SendIssue
    PROVE  /\ IssueFrame /\ UNCHANGED <<campaigns, interrupted>> /\ runner' = runner
           /\ runner.pc = "visit"
           /\ \E m \in sending : /\ sending' = sending \ {m}
                                 /\ delivered' = [delivered EXCEPT ![m.email] = @ + 1]
  <1>1. /\ runner.pc = "visit"
        /\ UNCHANGED <<runVars, subs, tokens, req, consent, inbox, abandoned,
                       settings, article, campaigns, interrupted>>
    BY DEF SendIssue
  <1>2. PICK m \in sending : /\ sending' = sending \ {m}
                             /\ delivered' = [delivered EXCEPT ![m.email] = @ + 1]
                             /\ letters' = letters \cup {<<m.email, m.leave>>}
    BY DEF SendIssue, NextRecipient
  <1>3. m.email \in Emails /\ m.leave \in 0..MaxTokens /\ delivered \in [Emails -> Nat]
    BY Typed
  <1>4. delivered' \in [Emails -> Nat] /\ letters' \subseteq Emails \X (0..MaxTokens)
    BY <1>2, <1>3, Typed
  <1>5. RunInv'
    BY <1>1, Typed, SameRun
  <1>6. Types'
    BY <1>1, <1>2, <1>4, <1>5, Typed, OtherStep
  <1> QED
    BY <1>1, <1>2, <1>6 DEF IssueFrame, Holds, runVars

LEMMA RefusedMoves ==
    ASSUME Types, SendIssueFails
    PROVE  /\ IssueFrame /\ UNCHANGED <<delivered, campaigns, interrupted>> /\ runner' = runner
           /\ runner.pc = "visit" /\ sending' \subseteq sending
  <1>1. /\ runner.pc = "visit" /\ sending' \subseteq sending
        /\ UNCHANGED <<clock, jobs, runner, crashes, subs, tokens, req, consent, inbox, letters,
                       abandoned, settings, article, delivered, campaigns, interrupted>>
    BY DEF SendIssueFails, subVars
  <1>2. faults' \in 0..MaxFaults
    BY FaultCounted DEF SendIssueFails
  <1>3. RunInv'
    BY <1>1, <1>2, Typed DEF RunInv, RunTypeOK, AttemptLeft, HeldRowRuns
  <1>4. Types'
    BY <1>1, <1>3, Typed, OtherStep
  <1> QED
    BY <1>1, <1>4 DEF IssueFrame, Holds

LEMMA CutMoves ==
    ASSUME Types, SendIssueCanceled
    PROVE  /\ IssueFrame /\ UNCHANGED campaigns /\ interrupted' = interrupted + 1
           /\ runner.pc = "visit" /\ Returned("canceled") /\ sending' = {}
           /\ \/ \E m \in sending : delivered' = [delivered EXCEPT ![m.email] = @ + 1]
              \/ UNCHANGED delivered
  <1>1. /\ runner.pc = "visit" /\ Return("canceled") /\ sending' = {} /\ interrupted' = interrupted + 1
        /\ UNCHANGED <<clock, jobs, faults, subs, tokens, req, consent, inbox, letters,
                       abandoned, settings, article, campaigns>>
    BY DEF SendIssueCanceled, subVars
  <1>2. \/ \E m \in sending : delivered' = [delivered EXCEPT ![m.email] = @ + 1]
        \/ UNCHANGED delivered
    BY DEF SendIssueCanceled, NextRecipient
  <1>3. faults' \in 0..MaxFaults /\ crashes' \in 0..MaxCrashes
    BY <1>1, FaultCounted DEF SendIssueCanceled
  <1>4. RunInv' /\ Returned("canceled")
    BY <1>1, <1>3, ReturnInv DEF Holds
  <1>5. delivered' \in [Emails -> Nat] /\ interrupted' \in Nat
    BY <1>1, <1>2, Typed
  <1>6. Types'
    BY <1>1, <1>4, <1>5, Typed, OtherStep
  <1> QED
    BY <1>1, <1>2, <1>4, <1>6 DEF IssueFrame, Returned, Holds

LEMMA SentMoves ==
    ASSUME Types, IssueSent
    PROVE  /\ IssueFrame /\ UNCHANGED <<sending, delivered, campaigns, interrupted>>
           /\ runner.pc = "visit" /\ sending = {} /\ Returned("ok")
  <1>1. /\ runner.pc = "visit" /\ sending = {} /\ Return("ok")
        /\ UNCHANGED <<clock, jobs, faults, crashes, subs, tokens, req, consent, inbox, letters,
                       abandoned, newsVars>>
    BY DEF IssueSent, subVars
  <1>2. RunInv' /\ Returned("ok")
    BY <1>1, FaultCounted, ReturnInv DEF Holds
  <1>3. Types'
    BY <1>1, <1>2, Typed, OtherStep DEF newsVars
  <1> QED
    BY <1>1, <1>2, <1>3 DEF IssueFrame, Returned, Holds, newsVars

LEMMA CreateMoves ==
    ASSUME Types, CreateCampaign
    PROVE  /\ IssueFrame /\ UNCHANGED <<sending, delivered, campaigns, interrupted>>
           /\ runner.pc = "act" /\ (runner'.pc = "write" \/ Returned("ok"))
  <1>1. /\ runner.pc = "act"
        /\ UNCHANGED <<clock, jobs, crashes, subs, tokens, req, consent, inbox, letters,
                       abandoned, newsVars>>
    BY DEF CreateCampaign, subVars
  <1>2. faults' \in 0..MaxFaults /\ crashes' \in 0..MaxCrashes
    BY <1>1, FaultCounted DEF CreateCampaign
  <1>3. /\ RunInv' /\ runner'.pc \in Holds /\ runner'.id = runner.id
        /\ (runner'.pc = "write" \/ Returned("ok"))
    <2>1. CASE runner' = [runner EXCEPT !.pc = "write"] /\ UNCHANGED faults
      BY <1>1, <2>1, MoveInv DEF Holds
    <2>2. CASE Return("ok")
      BY <1>1, <1>2, <2>2, ReturnInv DEF Holds, Returned
    <2> QED
      BY <2>1, <2>2 DEF CreateCampaign
  <1>4. Types'
    BY <1>1, <1>3, Typed, OtherStep DEF newsVars
  <1> QED
    BY <1>1, <1>3, <1>4 DEF IssueFrame, Holds, newsVars

LEMMA StartMoves ==
    ASSUME Types, StartCampaign
    PROVE  /\ IssueFrame /\ UNCHANGED <<sending, delivered, interrupted>>
           /\ runner.pc = "write" /\ Returned("ok") /\ campaigns' \in {campaigns, campaigns + 1}
  <1>1. /\ runner.pc = "write" /\ Return("ok") /\ campaigns' \in {campaigns, campaigns + 1}
        /\ UNCHANGED <<clock, jobs, crashes, subs, tokens, req, consent, inbox, letters,
                       abandoned, settings, article, sending, delivered, interrupted>>
    BY DEF StartCampaign, subVars
  <1>2. faults' \in 0..MaxFaults /\ crashes' \in 0..MaxCrashes
    BY <1>1, FaultCounted DEF StartCampaign
  <1>3. RunInv' /\ Returned("ok")
    BY <1>1, <1>2, ReturnInv DEF Holds
  <1>4. campaigns' \in Nat
    BY <1>1, Typed
  <1>5. Types'
    BY <1>1, <1>3, <1>4, Typed, OtherStep
  <1> QED
    BY <1>1, <1>3, <1>5 DEF IssueFrame, Returned, Holds

LEMMA CampaignCutMoves ==
    ASSUME Types, CampaignCanceled
    PROVE  /\ IssueFrame /\ UNCHANGED <<sending, delivered>> /\ interrupted' = interrupted + 1
           /\ runner.pc \in {"act", "write"} /\ Returned("canceled")
           /\ campaigns' \in {campaigns, campaigns + 1}
  <1>1. /\ runner.pc \in {"act", "write"} /\ Return("canceled") /\ interrupted' = interrupted + 1
        /\ UNCHANGED <<clock, jobs, faults, subs, tokens, req, consent, inbox, letters,
                       abandoned, settings, article, sending, delivered>>
    BY DEF CampaignCanceled, subVars
  <1>2. campaigns' \in {campaigns, campaigns + 1}
    BY DEF CampaignCanceled
  <1>3. faults' \in 0..MaxFaults /\ crashes' \in 0..MaxCrashes
    BY <1>1, FaultCounted DEF CampaignCanceled
  <1>4. RunInv' /\ Returned("canceled")
    BY <1>1, <1>3, ReturnInv DEF Holds
  <1>5. campaigns' \in Nat /\ interrupted' \in Nat
    BY <1>1, <1>2, Typed
  <1>6. Types'
    BY <1>1, <1>4, <1>5, Typed, OtherStep
  <1> QED
    BY <1>1, <1>2, <1>4, <1>6 DEF IssueFrame, Returned, Holds

LEMMA IssueSteps ==
    ASSUME Types, IssueStep
    PROVE  IssueFrame
  BY LoadMoves, LoadFailMoves, SendMoves, RefusedMoves, CutMoves, SentMoves, CreateMoves,
     StartMoves, CampaignCutMoves DEF IssueStep

-----------------------------------------------------------------------------
(* The worker.                                                             *)

(* Its statements leave the kind of a row and a finished row alone. *)
RowsKept ==
    \A i \in JobIds :
        /\ jobs'[i].kind = jobs[i].kind
        /\ jobs'[i].status = "done" <=> (jobs[i].status = "done" \/
             (Book /\ runner.outcome = "ok" /\ i = runner.id))
        /\ jobs[i].status \in {"queued", "running", "failed"} /\ jobs'[i].status # "done"
             => jobs'[i].status \in {"queued", "running", "failed"}

LEMMA RunStepMoves ==
    ASSUME Types, RunStep
    PROVE  /\ Types' /\ RowsKept /\ UNCHANGED <<subVars, newsVars>>
           /\ \/ Book /\ runner.pc = "book" /\ runner'.pc \in {"idle", "down"}
              \/ ~Book /\ runner.pc \in {"idle", "claim", "down"}
                       /\ runner'.pc \in {"idle", "claim", "load"}
  <1>0. RunInv /\ Rows(subs) /\ UNCHANGED <<subVars, newsVars>>
    BY Typed DEF RunStep
  <1>t. ASSUME RunInv' PROVE Types'
    BY <1>0, <1>t, Typed, OtherStep DEF subVars, newsVars
  <1>b. Book => runner.pc = "book"
    BY DEF Book
  <1>1. CASE GetDue
    <2>1. RunInv' /\ runner.pc = "idle" /\ runner'.pc = "claim" /\ UNCHANGED jobs
      BY <1>0, <1>1, GetDueInv DEF GetDue
    <2> QED
      BY <1>0, <1>t, <1>b, <2>1 DEF RowsKept
  <1>2. CASE Claim
    <2>1. /\ RunInv' /\ runner.pc = "claim" /\ runner'.pc = "load" /\ runner'.id = runner.id
          /\ runner.id \in JobIds /\ Queued(jobs, runner.id)
          /\ jobs'[runner.id].kind = jobs[runner.id].kind
          /\ \A i \in JobIds \ {runner.id} : jobs'[i] = jobs[i]
      BY <1>0, <1>2, ClaimInv DEF Claim
    <2>2. jobs'[runner.id].status = "running"
      BY <2>1 DEF RunInv, HeldRowRuns, Holds
    <2>3. RowsKept
      BY <1>b, <2>1, <2>2 DEF RowsKept, Queued
    <2> QED
      BY <1>0, <1>t, <1>b, <2>1, <2>3
  <1>3. CASE Book
    <2>1. /\ RunInv' /\ runner.pc = "book" /\ runner'.pc \in {"idle", "down"}
          /\ runner.id \in JobIds /\ jobs[runner.id].status = "running"
          /\ jobs'[runner.id].kind = jobs[runner.id].kind
          /\ \A i \in JobIds \ {runner.id} : jobs'[i] = jobs[i]
          /\ \/ runner.outcome = "ok" /\ jobs'[runner.id].status = "done"
             \/ runner.outcome # "ok" /\ jobs'[runner.id].status \in {"queued", "failed"}
      BY <1>0, <1>3, <1>b, BookInv
    <2>2. RowsKept
      BY <1>3, <2>1 DEF RowsKept
    <2> QED
      BY <1>0, <1>t, <1>3, <2>1, <2>2
  <1>4. CASE Restart
    <2>1. /\ RunInv' /\ runner.pc = "down" /\ runner'.pc = "idle"
          /\ \A i \in JobIds :
                \/ jobs'[i] = jobs[i]
                \/ /\ jobs[i].status = "running" /\ jobs'[i].kind = jobs[i].kind
                   /\ jobs'[i].status \in {"queued", "failed"}
      BY <1>0, <1>4, RestartInv DEF Restart
    <2>2. RowsKept
      BY <1>b, <2>1 DEF RowsKept
    <2> QED
      BY <1>0, <1>t, <1>b, <2>1, <2>2
  <1> QED
    BY <1>1, <1>2, <1>3, <1>4 DEF RunStep

LEMMA CrashMoves ==
    ASSUME Types, CrashProcess
    PROVE  /\ Types' /\ runner'.pc = "down" /\ sending' = {}
           /\ UNCHANGED <<jobs, subs, consent, inbox, delivered, campaigns>>
           /\ req' = [r \in Requests |-> Idle]
           /\ abandoned' = abandoned \cup ({req[r].id : r \in Requests} \cap SubIds)
           /\ interrupted' = IF \E i \in JobIds : jobs[i].kind = Issue /\ jobs[i].status = "running"
                             THEN interrupted + 1 ELSE interrupted
  <1>1. RunInv' /\ runner'.pc = "down" /\ jobs' = jobs
    BY Typed, CrashInv DEF CrashProcess, Crash
  <1>2. /\ sending' = {} /\ req' = [r \in Requests |-> Idle]
        /\ abandoned' = abandoned \cup ({req[r].id : r \in Requests} \cap SubIds)
        /\ interrupted' = IF \E i \in JobIds : jobs[i].kind = Issue /\ jobs[i].status = "running"
                          THEN interrupted + 1 ELSE interrupted
        /\ UNCHANGED <<subs, tokens, consent, inbox, letters, settings, article, delivered, campaigns>>
    BY DEF CrashProcess, RequestsDie
  <1>3. interrupted' \in Nat /\ abandoned' \subseteq SubIds
    BY <1>2, Typed
  <1>4. Idle \in Request /\ Idle.pc = "idle"
    BY IdleFits DEF Fits, Idle
  <1>5. req' \in [Requests -> Request] /\ AskedFor'
    BY <1>2, <1>4 DEF AskedFor, Holder
  <1>6. SubTypeOK'
    BY <1>2, <1>3, <1>5, Typed DEF SubTypeOK, Rows, Present
  <1>7. TypeOK'
    BY <1>1, <1>2, <1>3, <1>6, Typed DEF TypeOK, RunInv
  <1> QED
    BY <1>1, <1>2, <1>5, <1>7 DEF Types

LEMMA TickMoves ==
    ASSUME Types, PassTime
    PROVE  Types' /\ UNCHANGED <<jobs, runner, subVars, newsVars>>
  <1>1. RunInv' /\ UNCHANGED <<jobs, runner, subVars, newsVars>>
    BY Typed, TickInv DEF PassTime, Tick
  <1> QED
    BY <1>1, Typed, OtherStep DEF subVars, newsVars

LEMMA StutterMoves ==
    ASSUME Types, UNCHANGED vars
    PROVE  Types' /\ UNCHANGED <<jobs, runner, subVars, newsVars>>
  <1>1. UNCHANGED <<runVars, subVars, newsVars>>
    BY DEF vars
  <1>2. RunInv'
    BY <1>1, Typed, SameRun
  <1> QED
    BY <1>1, <1>2, Typed, OtherStep DEF subVars, newsVars, runVars

LEMMA InitTypes == Init => Types
  <1> SUFFICES ASSUME Init PROVE Types
    OBVIOUS
  <1>1. RunInv
    BY RunInitInv DEF Init
  <1>e. PICK e \in Emails : \E row \in Imported(e) :
          /\ subs = [i \in SubIds |-> IF i = 1 THEN row ELSE NoSub]
          /\ consent = IF row.confirmed THEN {e} ELSE {}
          /\ letters = IF row.confirmed THEN {<<e, 1>>} ELSE {}
    BY DEF Init, SubInit
  <1>2. PICK row \in Imported(e) :
          /\ subs = [i \in SubIds |-> IF i = 1 THEN row ELSE NoSub]
          /\ consent = IF row.confirmed THEN {e} ELSE {}
          /\ letters = IF row.confirmed THEN {<<e, 1>>} ELSE {}
    BY <1>e
  <1>3. 1 \in 0..MaxTokens /\ 0 \in 0..MaxTokens /\ 1 \in 1..MaxTokens /\ 1 \in SubIds
    BY SubscriptionsAssumption DEF SubIds
  <1>4. row \in Subscriber \cup {NoSub}
    <2>1. NoSub \in [email : Emails \cup {NoEmail}, token : {0}, leave : {0}, confirmed : {FALSE},
                     unsubscribed : {FALSE}, tags : {{}}]
      BY DEF NoSub
    <2>2. {} \in SUBSET Tags
      OBVIOUS
    <2>3. [NoSub EXCEPT !.email = e] \in Subscriber
      BY <1>3, <2>1, <2>2 DEF Subscriber
    <2>4. [NoSub EXCEPT !.email = e, !.token = 1, !.leave = 1, !.confirmed = TRUE] \in Subscriber
      BY <1>3, <2>1, <2>2 DEF Subscriber
    <2> QED
      BY <2>3, <2>4 DEF Imported
  <1>5. /\ subs \in [SubIds -> Subscriber \cup {NoSub}]
        /\ \A i \in SubIds : Present(i) => i = 1
    BY <1>2, <1>4 DEF Present
  <1>6. \A i, j \in SubIds : Present(i) /\ subs[i].email = subs[j].email => i = j
    <2> SUFFICES ASSUME NEW i \in SubIds, NEW j \in SubIds, Present(i), subs[i].email = subs[j].email
                 PROVE  i = j
      OBVIOUS
    <2>1. subs[i].email \in Emails
      BY <1>5 DEF Present, Subscriber
    <2>2. Present(j)
      BY <2>1, MailAssumption DEF Present, NoSub
    <2> QED
      BY <1>5, <2>2
  <1>7. /\ tokens = 1 /\ req = [r \in Requests |-> Idle] /\ inbox = {} /\ abandoned = {1}
        /\ settings = [enabled |-> TRUE, provider |-> "native", smtp |-> TRUE, listmonk |-> TRUE]
        /\ article \in SUBSET Tags /\ sending = {}
        /\ delivered = [x \in Emails |-> 0] /\ campaigns = 0 /\ interrupted = 0
    BY DEF Init, SubInit
  <1>8. req \in [Requests -> Request] /\ AskedFor
    <2>1. Idle \in Request /\ Idle.pc = "idle"
      BY IdleFits DEF Fits, Idle
    <2> QED
      BY <1>7, <2>1 DEF AskedFor, Holder
  <1>9. consent \subseteq Emails /\ letters \subseteq Emails \X (0..MaxTokens)
    BY <1>2, <1>3
  <1>10. SubTypeOK
    BY <1>3, <1>5, <1>6, <1>7, <1>8, <1>9 DEF SubTypeOK
  <1>11. settings \in Settings
    BY <1>7 DEF Settings
  <1> QED
    BY <1>1, <1>7, <1>8, <1>10, <1>11 DEF Types, TypeOK, RunInv

LEMMA NextTypes ==
    ASSUME Types, [Next]_vars
    PROVE  Types'
  <1>1. CASE HandlerStep
    BY <1>1, ConfirmationMoves, IssueSteps DEF HandlerStep, IssueFrame
  <1> QED
    BY <1>1, WebTypes, RunStepMoves, CrashMoves, TickMoves, StutterMoves DEF Next

(* Every reachable state is well typed: one row per address, a request     *)
(* that goes on to write has an address and an id, the row the worker      *)
(* executes is running (subscriptions.go, subscribers_admin.go, native.go).*)
THEOREM TypesHold == Spec => []Types
  BY InitTypes, NextTypes, PTL DEF Spec

-----------------------------------------------------------------------------
(* The issue.                                                              *)

Reached(e) == delivered[e] + campaigns

(* The issue's job is not done, and its present run has not sent anything. *)
Unsent ==
    /\ \A i \in JobIds : jobs[i].kind = Issue => jobs[i].status # "done"
    /\ runner.pc # "visit"
    /\ ~(runner.pc = "book" /\ runner.outcome = "ok" /\ jobs[runner.id].kind = Issue)

(* One job per issue; its run holds the list, in which no address is twice *)
(* and none was reached by this run.                                       *)
IssueInv ==
    /\ \A i, j \in JobIds : jobs[i].kind = Issue /\ jobs[j].kind = Issue => i = j
    /\ runner.pc \in {"visit", "act", "write"} => jobs[runner.id].kind = Issue
    /\ sending # {} => runner.pc = "visit"
    /\ \A m, n \in sending : m.email = n.email => m = n
    /\ \A e \in Emails : Reached(e) <= 1 + interrupted
    /\ \A m \in sending : Reached(m.email) <= interrupted
    /\ Unsent => \A e \in Emails : Reached(e) <= interrupted

LEMMA KindsDiffer ==
    /\ \A i : ConfirmationJob(i) # Issue
    /\ \A i, j : ConfirmationJob(i) = ConfirmationJob(j) => i = j
    /\ NoKind # Issue
  <1>1. \A i : ConfirmationJob(i).job # Issue.job
    BY DEF ConfirmationJob, Issue
  <1>2. \A i : ConfirmationJob(i).id = i
    BY DEF ConfirmationJob
  <1> QED
    BY <1>1, <1>2, JobRunsAssumption, NewsletterAssumption

LEMMA HeldJob ==
    ASSUME Types, runner.pc \in Holds
    PROVE  runner.id \in JobIds /\ jobs[runner.id].status = "running"
  BY Typed DEF RunInv, HeldRowRuns

(* While the issue's job runs and is not at its list, nothing of it was    *)
(* sent by this run.                                                       *)
LEMMA RunningUnsent ==
    ASSUME Types, IssueInv, runner.pc \in Holds \ {"visit", "book"},
           jobs[runner.id].kind = Issue
    PROVE  Unsent
  BY HeldJob DEF IssueInv, Unsent

(* A step that sends nothing. *)
LEMMA QuietStep ==
    ASSUME IssueInv, UNCHANGED <<sending, delivered, campaigns, interrupted>>,
           \A i, j \in JobIds : jobs'[i].kind = Issue /\ jobs'[j].kind = Issue => i = j,
           runner'.pc \in {"visit", "act", "write"} => jobs'[runner'.id].kind = Issue,
           sending # {} => runner'.pc = "visit",
           Unsent' => Unsent
    PROVE  IssueInv'
  <1>1. \A e : Reached(e)' = Reached(e)
    BY DEF Reached
  <1> QED
    BY <1>1 DEF IssueInv

(* A step beside the worker: it may enqueue a row that is no issue. *)
LEMMA AsideIssue ==
    ASSUME Types, IssueInv, UNCHANGED <<runner, sending, delivered, campaigns, interrupted>>,
           \A k \in JobIds : jobs'[k] = jobs[k] \/ (jobs[k] = NoRow /\ jobs'[k].kind # Issue)
    PROVE  IssueInv'
  <1>1. \A k \in JobIds : /\ jobs'[k].kind = Issue <=> jobs[k].kind = Issue
                          /\ jobs[k].kind = Issue => jobs'[k] = jobs[k]
    BY KindsDiffer DEF NoRow
  <1>2. runner.pc \in Holds => runner.id \in JobIds
    BY HeldJob
  <1>3. Unsent' => Unsent
    BY <1>1, <1>2 DEF Unsent, Holds
  <1>4. runner'.pc \in {"visit", "act", "write"} => jobs'[runner'.id].kind = Issue
    BY <1>1, <1>2 DEF IssueInv, Holds
  <1>5. sending # {} => runner'.pc = "visit"
    BY DEF IssueInv
  <1>6. \A i, j \in JobIds : jobs'[i].kind = Issue /\ jobs'[j].kind = Issue => i = j
    BY <1>1 DEF IssueInv
  <1> QED
    BY <1>3, <1>4, <1>5, <1>6, QuietStep

LEMMA RequestAside ==
    ASSUME Types, NEW r \in Requests, RequestSteps(r)
    PROVE  /\ runner' = runner
           /\ \A k \in JobIds : jobs'[k] = jobs[k] \/ (jobs[k] = NoRow /\ jobs'[k].kind # Issue)
  <1>1. CASE EnqueueConfirmation(r)
    BY <1>1, EnqueueWrites, KindsDiffer
  <1>2. CASE ReadStep(r)
    BY <1>2, ReadRequest DEF runVars
  <1>3. CASE CreateStep(r)
    BY <1>3, CreateWrites DEF runVars
  <1>4. CASE Renew(r)
    BY <1>4, RenewWrites DEF Updates, runVars
  <1>5. CASE ChooseTags(r) \/ SetTags(r)
    BY <1>5, TagWrites DEF Updates, runVars
  <1>6. CASE Confirm(r) \/ Vouch(r)
    BY <1>6, ConfirmWrites DEF Updates, runVars
  <1>7. CASE Unsubscribe(r)
    BY <1>7, UnsubscribeWrites DEF Updates, runVars
  <1>8. CASE RequestFails(r)
    BY <1>8, FailureWrites
  <1> QED
    BY <1>1, <1>2, <1>3, <1>4, <1>5, <1>6, <1>7, <1>8 DEF RequestSteps

LEMMA WebIssue ==
    ASSUME Types, IssueInv, WebStep
    PROVE  IssueInv'
  <1>1. CASE \E r \in Requests : (SubscriberStep(r) \/ AdminListStep(r) \/ RequestFails(r))
                                 /\ UNCHANGED newsVars
    <2>1. PICK r \in Requests : RequestSteps(r) /\ UNCHANGED newsVars
      BY <1>1, RequestCases
    <2> QED
      BY <2>1, RequestAside, AsideIssue DEF newsVars
  <1>2. CASE Destroy /\ UNCHANGED newsVars
    BY <1>2, AsideIssue DEF Destroy, newsVars, runVars
  <1>3. CASE UpdateNewsletterSetting \/ UpdateListmonk
    <2>1. UNCHANGED <<runVars, sending, delivered, campaigns, interrupted>>
      BY <1>3, SettingsWrites
    <2> QED
      BY <2>1, AsideIssue DEF runVars
  <1>4. CASE DestroyArticle
    BY <1>4, AsideIssue DEF DestroyArticle, runVars
  <1>5. CASE RequestIssue
    <2>1. /\ UNCHANGED <<runner, sending, delivered, campaigns, interrupted>>
          /\ \A j \in JobIds : jobs[j].kind # Issue
      BY <1>5, IssueRequested DEF newsVars
    <2>2. PICK j \in JobIds :
            /\ jobs[j] = NoRow /\ jobs'[j].kind = Issue
            /\ \A k \in JobIds \ {j} : jobs'[k] = jobs[k]
      BY <1>5, IssueRequested
    <2>3. runner.pc \in Holds => jobs[runner.id].kind # Issue
      BY <2>1, HeldJob
    <2>4. Unsent
      BY <2>1, <2>3 DEF Unsent, IssueInv, Holds
    <2>5. runner.pc \notin {"visit", "act", "write"}
      BY <2>3 DEF IssueInv, Holds
    <2>6. \A i, k \in JobIds : jobs'[i].kind = Issue /\ jobs'[k].kind = Issue => i = k
      BY <2>1, <2>2
    <2>7. sending # {} => runner'.pc = "visit"
      BY <2>1 DEF IssueInv
    <2> QED
      BY <2>1, <2>4, <2>5, <2>6, <2>7, QuietStep
  <1> QED
    BY <1>1, <1>2, <1>3, <1>4, <1>5 DEF WebStep

LEMMA ConfirmationIssue ==
    ASSUME Types, IssueInv, SendConfirmation \/ ConfirmationFails
    PROVE  IssueInv'
  <1>1. PICK i \in SubIds : jobs[runner.id].kind = ConfirmationJob(i)
    BY ConfirmationMoves
  <1>2. /\ runner.pc \in Holds \ {"book"} /\ UNCHANGED <<jobs, sending, delivered, campaigns, interrupted>>
        /\ runner'.pc = "book"
    BY ConfirmationMoves DEF Returned, newsVars
  <1>3. runner.pc = "load"
    BY <1>1, <1>2, KindsDiffer DEF IssueInv, Holds
  <1>4. Unsent' => Unsent
    BY <1>2, <1>3 DEF Unsent
  <1> QED
    BY <1>2, <1>3, <1>4, QuietStep DEF IssueInv

LEMMA ReachedTypes ==
    ASSUME Types, NEW e \in Emails
    PROVE  Reached(e) \in Nat /\ delivered[e] \in Nat /\ campaigns \in Nat /\ interrupted \in Nat
  BY Typed DEF Reached

LEMMA IssueStepIssue ==
    ASSUME Types, IssueInv, IssueStep
    PROVE  IssueInv'
  <1>0. /\ Types' /\ runner.pc \in Holds \ {"book"} /\ runner'.pc \in Holds /\ runner'.id = runner.id
        /\ UNCHANGED jobs
    BY IssueSteps DEF IssueFrame
  <1>j. runner.id \in JobIds /\ jobs[runner.id].status = "running"
    BY <1>0, HeldJob
  <1>1. CASE LoadIssue
    <2>1. /\ UNCHANGED <<delivered, campaigns, interrupted>>
          /\ runner.pc = "load" /\ jobs[runner.id].kind = Issue
          /\ \/ Returned("ok") /\ UNCHANGED sending
             \/ Returned("error") /\ UNCHANGED sending
             \/ runner'.pc = "visit" /\ sending' = Recipients
             \/ runner'.pc = "act" /\ UNCHANGED sending
      BY <1>1, LoadMoves
    <2>2. Unsent
      BY <1>0, <2>1, RunningUnsent
    <2>3. sending = {}
      BY <2>1 DEF IssueInv
    <2>4. CASE UNCHANGED sending
      BY <1>0, <2>1, <2>2, <2>3, <2>4, QuietStep DEF IssueInv
    <2>5. CASE runner'.pc = "visit" /\ sending' = Recipients
      <3>1. \A e : Reached(e)' = Reached(e)
        BY <2>1 DEF Reached
      <3>2. \A e \in Emails : Reached(e) <= interrupted /\ Reached(e) <= 1 + interrupted
        BY <2>2 DEF IssueInv
      <3>3. \A m, n \in sending' : m.email \in Emails /\ (m.email = n.email => m = n)
        BY <2>5, RecipientTypes
      <3> QED
        BY <1>0, <2>1, <2>5, <3>1, <3>2, <3>3 DEF IssueInv
    <2> QED
      BY <2>1, <2>4, <2>5
  <1>2. CASE LoadIssueFails
    <2>1. /\ UNCHANGED <<sending, delivered, campaigns, interrupted>>
          /\ runner.pc = "load" /\ jobs[runner.id].kind = Issue /\ Returned("error")
      BY <1>2, LoadFailMoves
    <2>2. Unsent /\ sending = {}
      BY <1>0, <2>1, RunningUnsent DEF IssueInv
    <2> QED
      BY <1>0, <2>1, <2>2, QuietStep DEF IssueInv, Returned
  <1>3. CASE SendIssue
    <2>1. UNCHANGED <<campaigns, interrupted>> /\ runner' = runner /\ runner.pc = "visit"
      BY <1>3, SendMoves
    <2>2. PICK m \in sending : /\ sending' = sending \ {m}
                               /\ delivered' = [delivered EXCEPT ![m.email] = @ + 1]
      BY <1>3, SendMoves
    <2>3. m.email \in Emails /\ delivered \in [Emails -> Nat] /\ campaigns \in Nat /\ interrupted \in Nat
          /\ \A n \in sending : n.email \in Emails
      BY Typed
    <2>4. /\ Reached(m.email)' = Reached(m.email) + 1
          /\ \A e \in Emails \ {m.email} : Reached(e)' = Reached(e)
      BY <2>1, <2>2, <2>3 DEF Reached
    <2>5. \A e \in Emails : Reached(e)' <= 1 + interrupted
      <3>1. Reached(m.email) <= interrupted /\ \A e \in Emails : Reached(e) <= 1 + interrupted
        BY DEF IssueInv
      <3>2. Reached(m.email)' <= 1 + interrupted
        BY <2>3, <2>4, <3>1 DEF Reached
      <3> QED
        BY <2>4, <3>1, <3>2
    <2>6. \A n \in sending' : n \in sending /\ Reached(n.email)' <= interrupted
      BY <2>2, <2>3, <2>4 DEF IssueInv
    <2>7. ~Unsent'
      BY <2>1 DEF Unsent
    <2> QED
      BY <1>0, <2>1, <2>5, <2>6, <2>7 DEF IssueInv
  <1>4. CASE SendIssueFails
    <2>1. /\ UNCHANGED <<delivered, campaigns, interrupted>> /\ runner' = runner
          /\ runner.pc = "visit" /\ sending' \subseteq sending
      BY <1>4, RefusedMoves
    <2>2. \A e : Reached(e)' = Reached(e)
      BY <2>1 DEF Reached
    <2>3. ~Unsent'
      BY <2>1 DEF Unsent
    <2> QED
      BY <1>0, <2>1, <2>2, <2>3 DEF IssueInv
  <1>5. CASE SendIssueCanceled
    <2>1. /\ UNCHANGED campaigns /\ interrupted' = interrupted + 1
          /\ Returned("canceled") /\ sending' = {}
          /\ \/ \E m \in sending : delivered' = [delivered EXCEPT ![m.email] = @ + 1]
             \/ UNCHANGED delivered
      BY <1>5, CutMoves
    <2>2. delivered \in [Emails -> Nat] /\ campaigns \in Nat /\ interrupted \in Nat
          /\ \A n \in sending : n.email \in Emails
      BY Typed
    <2>3. ASSUME NEW e \in Emails PROVE Reached(e)' <= interrupted'
      <3>1. Reached(e) <= 1 + interrupted /\ Reached(e) \in Nat
        BY <2>2 DEF IssueInv, Reached
      <3>2. CASE UNCHANGED delivered
        BY <2>1, <2>2, <3>1, <3>2 DEF Reached
      <3>3. CASE \E m \in sending : delivered' = [delivered EXCEPT ![m.email] = @ + 1]
        <4>1. PICK m \in sending : delivered' = [delivered EXCEPT ![m.email] = @ + 1]
          BY <3>3
        <4>2. Reached(m.email) <= interrupted /\ m.email \in Emails
          BY <2>2 DEF IssueInv
        <4>3. CASE e = m.email
          BY <2>1, <2>2, <4>1, <4>2, <4>3 DEF Reached
        <4>4. CASE e # m.email
          BY <2>1, <2>2, <3>1, <4>1, <4>2, <4>4 DEF Reached
        <4> QED
          BY <4>3, <4>4
      <3> QED
        BY <2>1, <3>2, <3>3
    <2>4. \A e \in Emails : Reached(e)' <= 1 + interrupted'
      <3> SUFFICES ASSUME NEW e \in Emails PROVE Reached(e)' <= 1 + interrupted'
        OBVIOUS
      <3>1. Reached(e)' \in Nat /\ interrupted' \in Nat
        BY <1>0, Typed DEF Reached, Types, TypeOK
      <3> QED
        BY <2>3, <3>1
    <2> QED
      BY <1>0, <2>1, <2>3, <2>4 DEF IssueInv, Returned
  <1>6. CASE IssueSent
    <2>1. /\ UNCHANGED <<sending, delivered, campaigns, interrupted>>
          /\ runner.pc = "visit" /\ sending = {} /\ Returned("ok")
      BY <1>6, SentMoves
    <2>2. ~Unsent'
      BY <1>0, <2>1 DEF Unsent, IssueInv, Returned
    <2> QED
      BY <1>0, <2>1, <2>2, QuietStep DEF IssueInv, Returned
  <1>7. CASE CreateCampaign
    <2>1. /\ UNCHANGED <<sending, delivered, campaigns, interrupted>>
          /\ runner.pc = "act" /\ (runner'.pc = "write" \/ Returned("ok"))
      BY <1>7, CreateMoves
    <2>2. Unsent /\ sending = {} /\ jobs[runner.id].kind = Issue
      BY <1>0, <2>1, RunningUnsent DEF IssueInv
    <2> QED
      BY <1>0, <2>1, <2>2, QuietStep DEF IssueInv, Returned
  <1>8. CASE StartCampaign \/ CampaignCanceled
    <2>1. /\ UNCHANGED <<sending, delivered>> /\ runner.pc \in {"act", "write"}
          /\ campaigns' \in {campaigns, campaigns + 1} /\ runner'.pc = "book"
          /\ \/ interrupted' = interrupted /\ Returned("ok")
             \/ interrupted' = interrupted + 1
      BY <1>8, StartMoves, CampaignCutMoves DEF Returned
    <2>2. Unsent /\ sending = {} /\ jobs[runner.id].kind = Issue
      BY <1>0, <2>1, RunningUnsent DEF IssueInv
    <2>3. ASSUME NEW e \in Emails
          PROVE  /\ Reached(e)' <= 1 + interrupted'
                 /\ interrupted' = interrupted + 1 => Reached(e)' <= interrupted'
      <3>1. Reached(e) <= interrupted
        BY <2>2 DEF IssueInv
      <3>2. delivered[e] \in Nat /\ campaigns \in Nat /\ interrupted \in Nat
        BY ReachedTypes
      <3>3. Reached(e)' = Reached(e) \/ Reached(e)' = Reached(e) + 1
        BY <2>1, <3>2 DEF Reached
      <3> QED
        BY <2>1, <3>1, <3>2, <3>3 DEF Reached
    <2>4. Unsent' => interrupted' = interrupted + 1
      BY <1>0, <2>1, <2>2 DEF Unsent, Returned
    <2> QED
      BY <1>0, <2>1, <2>2, <2>3, <2>4 DEF IssueInv
  <1> QED
    BY <1>1, <1>2, <1>3, <1>4, <1>5, <1>6, <1>7, <1>8 DEF IssueStep

LEMMA RunIssue ==
    ASSUME Types, IssueInv, RunStep
    PROVE  IssueInv'
  <1>1. /\ RowsKept /\ UNCHANGED <<sending, delivered, campaigns, interrupted>>
        /\ \/ Book /\ runner.pc = "book" /\ runner'.pc \in {"idle", "down"}
           \/ /\ ~Book /\ runner.pc \in {"idle", "claim", "down"}
              /\ runner'.pc \in {"idle", "claim", "load"}
    BY RunStepMoves DEF newsVars
  <1>2. Unsent' => Unsent
    <2>1. CASE Book
      <3>1. runner.id \in JobIds
        BY <1>1, <2>1, HeldJob DEF Holds
      <3> QED
        BY <1>1, <2>1, <3>1 DEF Unsent, RowsKept
    <2>2. CASE ~Book
      BY <1>1, <2>2 DEF Unsent, RowsKept
    <2> QED
      BY <2>1, <2>2
  <1>3. \A i, j \in JobIds : jobs'[i].kind = Issue /\ jobs'[j].kind = Issue => i = j
    BY <1>1 DEF RowsKept, IssueInv
  <1> QED
    BY <1>1, <1>2, <1>3, QuietStep DEF IssueInv

LEMMA CrashIssue ==
    ASSUME Types, IssueInv, CrashProcess
    PROVE  IssueInv'
  <1>1. /\ runner'.pc = "down" /\ sending' = {} /\ UNCHANGED <<jobs, delivered, campaigns>>
        /\ interrupted' = IF \E i \in JobIds : jobs[i].kind = Issue /\ jobs[i].status = "running"
                          THEN interrupted + 1 ELSE interrupted
    BY CrashMoves
  <1>2. \A e : Reached(e)' = Reached(e)
    BY <1>1 DEF Reached
  <1>3. CASE \E i \in JobIds : jobs[i].kind = Issue /\ jobs[i].status = "running"
    <2>1. interrupted' = 1 + interrupted /\ interrupted \in Nat
      BY <1>1, <1>3, Typed
    <2>2. ASSUME NEW e \in Emails
          PROVE  Reached(e)' <= interrupted' /\ Reached(e)' <= 1 + interrupted'
      <3>1. Reached(e) <= 1 + interrupted /\ Reached(e) \in Nat
        BY ReachedTypes DEF IssueInv
      <3> QED
        BY <1>2, <2>1, <3>1
    <2> QED
      BY <1>1, <2>2 DEF IssueInv
  <1>4. CASE ~\E i \in JobIds : jobs[i].kind = Issue /\ jobs[i].status = "running"
    <2>1. interrupted' = interrupted
      BY <1>1, <1>4
    <2>2. runner.pc \in Holds => jobs[runner.id].kind # Issue
      BY <1>4, HeldJob
    <2>3. Unsent' => Unsent
      BY <1>1, <2>2 DEF Unsent, IssueInv, Holds
    <2> QED
      BY <1>1, <1>2, <2>1, <2>3 DEF IssueInv
  <1> QED
    BY <1>3, <1>4

LEMMA NextIssue ==
    ASSUME Types, IssueInv, [Next]_vars
    PROVE  IssueInv'
  <1>1. CASE PassTime \/ UNCHANGED vars
    BY <1>1, TickMoves, StutterMoves, AsideIssue DEF newsVars
  <1> QED
    BY <1>1, WebIssue, ConfirmationIssue, IssueStepIssue, RunIssue, CrashIssue DEF Next, HandlerStep

LEMMA InitIssue == Init => IssueInv
  <1> SUFFICES ASSUME Init PROVE IssueInv
    OBVIOUS
  <1>1. /\ jobs = EmptyTable /\ runner.pc = "idle" /\ sending = {}
        /\ delivered = [e \in Emails |-> 0] /\ campaigns = 0 /\ interrupted = 0
    BY DEF Init, RunInit, At
  <1>2. \A e \in Emails : Reached(e) = 0
    BY <1>1 DEF Reached
  <1>3. \A i \in JobIds : jobs[i].kind # Issue
    BY <1>1, KindsDiffer DEF EmptyTable, NoRow
  <1> QED
    BY <1>1, <1>2, <1>3 DEF IssueInv

(* An issue reaches an address once, by mail or campaign, plus at most     *)
(* once for every run of its job that a crash or a shutdown cut off: the   *)
(* job sends nothing before its list, and no address is twice on the list. *)
(* For any number of subscribers, requests, faults and crashes (native.go, *)
(* listmonk.go, sendNewsletter).                                           *)
THEOREM RepeatsAreInterruptions == Spec => []IssueRepeatsOnlyAfterInterruption
  <1>1. Types /\ IssueInv => IssueRepeatsOnlyAfterInterruption
    BY DEF IssueInv, IssueRepeatsOnlyAfterInterruption, Reached
  <1>2. Init => Types /\ IssueInv
    BY InitTypes, InitIssue
  <1>3. Types /\ IssueInv /\ [Next]_vars => (Types /\ IssueInv)'
    BY NextTypes, NextIssue
  <1> QED
    BY <1>1, <1>2, <1>3, PTL DEF Spec

(* The row of the issue is done only when the run visited every recipient  *)
(* it had listed (native.go's loop and RunOnce's CompleteJobRun).          *)
THEOREM DoneIsComplete == Spec => []DoneIssueVisitedEveryone
  <1>1. Types /\ IssueInv => DoneIssueVisitedEveryone
    BY HeldJob DEF IssueInv, DoneIssueVisitedEveryone, Holds
  <1>2. Init => Types /\ IssueInv
    BY InitTypes, InitIssue
  <1>3. Types /\ IssueInv /\ [Next]_vars => (Types /\ IssueInv)'
    BY NextTypes, NextIssue
  <1> QED
    BY <1>1, <1>2, <1>3, PTL DEF Spec

-----------------------------------------------------------------------------
(* The opt-in.                                                             *)

(* The row a request holds is the one it read; what it will ask the        *)
(* address to confirm has a token.                                         *)
HeldRow ==
    \A r \in Requests : req[r].pc \in Holder =>
        /\ Present(req[r].id) /\ subs[req[r].id].email = req[r].email
        /\ req[r].pc \in {"tags", "enqueue"} => subs[req[r].id].token # 0

(* A confirmation job for row i that has not sent its mail. *)
MailTo(j, i) ==
    /\ jobs[j].kind = ConfirmationJob(i) /\ jobs[j].status \in {"queued", "running", "failed"}
    /\ ~(runner.pc = "book" /\ runner.outcome = "ok" /\ runner.id = j)

(* A request that will renew the row's token, enqueue its mail, or confirm *)
(* the row it created.                                                     *)
Promised(i) ==
    \E r \in Requests :
        req[r].id = i /\ req[r].pc \in {"reset", "fill", "tags", "enqueue", "autoConfirm"}

Awaited(i) ==
    \/ Promised(i)
    \/ \E j \in JobIds : MailTo(j, i)
    \/ <<subs[i].email, subs[i].token>> \in inbox

OptInInv ==
    /\ HeldRow
    /\ ActiveMeansConsent
    /\ \A i \in SubIds \ abandoned :
        /\ Present(i) => subs[i].token # 0
        /\ Pending(i) => Awaited(i)
(* An address is pending with a token and something on its way to it. *)
CanConfirm(i) ==
    /\ Present(i) => subs[i].token # 0
    /\ Pending(i) => Awaited(i)

LEMMA OptInParts ==
    OptInInv <=> HeldRow /\ ActiveMeansConsent /\ \A i \in SubIds \ abandoned : CanConfirm(i)
  BY DEF OptInInv, CanConfirm

(* Mail that is on its way stays so under a step of the queue that keeps   *)
(* the kinds and finishes only a run that has returned "ok".               *)
MailKept == \A j \in JobIds, i \in SubIds : MailTo(j, i) => MailTo(j, i)'

LEMMA SameJobs ==
    ASSUME UNCHANGED <<jobs, runner>>
    PROVE  MailKept
  BY DEF MailKept, MailTo

(* A step of one request r.  The rows others hold keep their address; what *)
(* r leaves behind is shown for the row it wrote.                          *)
LEMMA RequestOptIn ==
    ASSUME Types, OptInInv, NEW r \in Requests, NEW q, Keep(r, q), NEW id \in SubIds,
           MailKept, inbox \subseteq inbox',
           \A j \in SubIds \ {id} : subs'[j] = subs[j] /\ (j \notin abandoned' => j \notin abandoned),
           Present(id) => /\ subs'[id] # NoSub /\ subs'[id].email = subs[id].email
                          /\ subs[id].token # 0 => subs'[id].token # 0,
           req[r].pc \in {"reset", "fill", "tags", "enqueue", "autoConfirm"} => req[r].id = id,
           q.pc \in Holder => /\ subs'[q.id] # NoSub /\ subs'[q.id].email = q.email
                              /\ q.pc \in {"tags", "enqueue"} => subs'[q.id].token # 0,
           id \notin abandoned' => CanConfirm(id)',
           ActiveMeansConsent'
    PROVE  OptInInv'
  <1>1. req'[r] = q /\ \A x \in Requests \ {r} : req'[x] = req[x]
    BY Typed DEF Keep
  <1>2. ASSUME NEW x \in Requests, req'[x].pc \in Holder
        PROVE  /\ subs'[req'[x].id] # NoSub /\ subs'[req'[x].id].email = req'[x].email
               /\ req'[x].pc \in {"tags", "enqueue"} => subs'[req'[x].id].token # 0
    <2>1. CASE x = r
      BY <1>1, <1>2, <2>1
    <2>2. CASE x # r
      <3>1. /\ req'[x] = req[x] /\ Present(req[x].id) /\ subs[req[x].id].email = req[x].email
            /\ req[x].pc \in {"tags", "enqueue"} => subs[req[x].id].token # 0
        BY <1>1, <1>2, <2>2 DEF OptInInv, HeldRow
      <3>2. req[x].id \in SubIds
        BY <1>2, <3>1, HolderRow
      <3>3. CASE req[x].id = id
        BY <3>1, <3>3
      <3>4. CASE req[x].id # id
        BY <3>1, <3>2, <3>4 DEF Present
      <3> QED
        BY <3>3, <3>4
    <2> QED
      BY <2>1, <2>2
  <1>3. ASSUME NEW i \in SubIds \ {id}, i \notin abandoned'
        PROVE  CanConfirm(i)'
    <2>1. subs'[i] = subs[i] /\ CanConfirm(i)
      BY <1>3, OptInParts
    <2>2. Promised(i) => Promised(i)'
      <3> SUFFICES ASSUME Promised(i) PROVE Promised(i)'
        OBVIOUS
      <3>1. PICK x \in Requests : req[x].id = i /\ req[x].pc \in {"reset", "fill", "tags", "enqueue", "autoConfirm"}
        BY DEF Promised
      <3>2. x # r
        BY <3>1
      <3> QED
        BY <1>1, <3>1, <3>2 DEF Promised
    <2>3. Awaited(i) => Awaited(i)'
      BY <2>1, <2>2 DEF Awaited, MailKept
    <2> QED
      BY <2>1, <2>3 DEF CanConfirm, Present, Pending
  <1>4. HeldRow'
    BY <1>2 DEF HeldRow, Present
  <1>5. \A i \in SubIds \ abandoned' : CanConfirm(i)'
    BY <1>3
  <1> QED
    BY <1>4, <1>5 DEF OptInInv, CanConfirm

(* The row of a holder is there. *)
LEMMA HeldFacts ==
    ASSUME Types, OptInInv, NEW r \in Requests, req[r].pc \in Holder
    PROVE  /\ req[r].id \in SubIds /\ req[r].email \in Emails /\ req[r] \in Request
           /\ Present(req[r].id) /\ subs[req[r].id].email = req[r].email
           /\ subs[req[r].id] \in Subscriber
           /\ req[r].pc \in {"tags", "enqueue"} => subs[req[r].id].token # 0
  BY HolderRow DEF OptInInv, HeldRow

LEMMA ReadOptIn ==
    ASSUME Types, OptInInv, NEW r \in Requests, ReadStep(r)
    PROVE  OptInInv'
  <1>1. /\ UNCHANGED <<runVars, subs, tokens, consent, inbox, letters, abandoned>>
        /\ req[r].pc \in {"idle", "insert", "reload", "create"}
    BY ReadRequest
  <1>2. PICK q : /\ Keep(r, q) /\ Fits(q) /\ q.pc # "enqueue"
                 /\ q.pc \in Holder => Present(q.id) /\ subs[q.id].email = q.email
                 /\ q.pc = "tags" => subs[q.id].token # 0
    BY ReadRequest
  <1>3. req'[r] = q /\ \A x \in Requests \ {r} : req'[x] = req[x]
    BY <1>2, Typed DEF Keep
  <1>4. HeldRow'
    BY <1>1, <1>2, <1>3 DEF OptInInv, HeldRow, Present
  <1>5. \A i : Promised(i) => Promised(i)'
    BY <1>1, <1>3 DEF Promised
  <1>6. \A i \in SubIds : Awaited(i) => Awaited(i)'
    BY <1>1, <1>5 DEF Awaited, MailTo, runVars
  <1>7. ActiveMeansConsent'
    BY <1>1 DEF OptInInv, ActiveMeansConsent
  <1> QED
    BY <1>1, <1>4, <1>6, <1>7 DEF OptInInv, Present, Pending

(* An active address that is still in the table keeps its consent.  *)
LEMMA UpdateConsent ==
    ASSUME Types, OptInInv, NEW r \in Requests, req[r].pc \in Holder, Updates(r),
           consent \subseteq consent' \/ consent' = consent \ {req[r].email},
           Active(subs'[req[r].id]) => req[r].email \in consent'
    PROVE  ActiveMeansConsent'
  <1> DEFINE id == req[r].id
  <1>1. /\ id \in SubIds /\ Present(id) /\ subs[id].email = req[r].email
        /\ subs'[id].email = req[r].email
    BY HeldFacts DEF Updates
  <1>2. ASSUME NEW i \in SubIds, i # id, Active(subs'[i])
        PROVE  subs'[i].email \in consent'
    <2>1. subs'[i] = subs[i] /\ subs[i].email \in consent
      BY <1>2 DEF Updates, OptInInv, ActiveMeansConsent
    <2>2. subs[i].email # req[r].email
      BY <1>1, <1>2, Typed DEF Rows, Present
    <2> QED
      BY <2>1, <2>2
  <1> QED
    BY <1>1, <1>2 DEF ActiveMeansConsent

LEMMA UpdateOptIn ==
    ASSUME Types, OptInInv, NEW r \in Requests,
           Renew(r) \/ ChooseTags(r) \/ SetTags(r) \/ Confirm(r) \/ Vouch(r) \/ Unsubscribe(r)
    PROVE  OptInInv'
  <1>0. req[r].pc \in Holder
    BY DEF Renew, ChooseTags, SetTags, Confirm, Vouch, Unsubscribe, Holder
  <1>i. PICK id \in SubIds : id = req[r].id
    BY <1>0, HeldFacts
  <1>1. /\ req[r] \in Request /\ req[r].email \in Emails
        /\ Present(id) /\ subs[id].email = req[r].email /\ subs[id] \in Subscriber
    BY <1>0, <1>i, HeldFacts
  <1>2. Updates(r)
    BY RenewWrites, TagWrites, ConfirmWrites, UnsubscribeWrites
  <1>3. /\ UNCHANGED <<jobs, runner, inbox, abandoned>> /\ MailKept
        /\ subs'[id] \in Subscriber /\ subs'[id].email = req[r].email
        /\ \A j \in SubIds \ {id} : subs'[j] = subs[j]
    BY <1>1, <1>2, <1>i, SameJobs DEF Updates, runVars
  <1>4. subs'[id] # NoSub
    BY <1>3, MailAssumption DEF Subscriber, NoSub
  <1>5. CASE Renew(r)
    <2>1. /\ UNCHANGED consent /\ Keep(r, [req[r] EXCEPT !.pc = "tags"])
          /\ subs'[req[r].id].token # 0
          /\ Active(subs'[req[r].id]) => Active(subs[req[r].id])
      BY <1>i, <1>1, <1>5, RenewWrites
    <2>q. PICK q : q = [req[r] EXCEPT !.pc = "tags"]
      OBVIOUS
    <2>2. q.pc = "tags" /\ q.id = id /\ q.email = req[r].email
      BY <1>i, <1>1, <2>q DEF Request
    <2>3. Keep(r, q)
      BY <2>1, <2>q
    <2>4. ActiveMeansConsent'
      BY <1>i, <1>0, <1>1, <1>2, <2>1, UpdateConsent DEF OptInInv, ActiveMeansConsent
    <2>5. Promised(id)'
      <3>1. req'[r] = q
        BY <2>3, Typed DEF Keep
      <3> QED
        BY <2>2, <3>1 DEF Promised
    <2>6. CanConfirm(id)'
      BY <1>i, <2>1, <2>5 DEF CanConfirm, Awaited
    <2> QED
      BY <1>i, <1>1, <1>3, <1>4, <2>1, <2>2, <2>3, <2>4, <2>6, RequestOptIn
  <1>6. CASE ChooseTags(r) \/ SetTags(r)
    <2>1. /\ UNCHANGED consent
          /\ subs'[id].token = subs[id].token
          /\ subs'[id].confirmed = subs[id].confirmed
          /\ subs'[id].unsubscribed = subs[id].unsubscribed
          /\ \/ req[r].pc = "setTags" /\ Keep(r, Idle)
             \/ req[r].pc = "tags" /\ Keep(r, [req[r] EXCEPT !.pc = "enqueue"])
      BY <1>i, <1>1, <1>6, TagWrites
    <2>2. ActiveMeansConsent'
      BY <1>i, <1>0, <1>1, <1>2, <2>1, UpdateConsent DEF OptInInv, ActiveMeansConsent, Active
    <2>3. CASE req[r].pc = "setTags" /\ Keep(r, Idle)
      <3>1. Idle.pc \notin Holder
        BY DEF Idle, Holder
      <3>2. req'[r] = Idle /\ \A x \in Requests \ {r} : req'[x] = req[x]
        BY <2>3, Typed DEF Keep
      <3>3. Promised(id) => Promised(id)'
        BY <2>3, <3>2 DEF Promised
      <3>4. id \notin abandoned' => CanConfirm(id)'
        <4>1. Awaited(id) => Awaited(id)'
          BY <1>1, <1>3, <2>1, <3>3 DEF Awaited, MailKept
        <4> QED
          BY <1>1, <1>3, <2>1, <4>1 DEF CanConfirm, OptInInv, Pending, Present
      <3> QED
        BY <1>1, <1>3, <1>4, <2>1, <2>2, <2>3, <3>1, <3>4, RequestOptIn
    <2>4. CASE req[r].pc = "tags" /\ Keep(r, [req[r] EXCEPT !.pc = "enqueue"])
      <3>q. PICK q : q = [req[r] EXCEPT !.pc = "enqueue"]
        OBVIOUS
      <3>1. q.pc = "enqueue" /\ q.id = id /\ q.email = req[r].email
        BY <1>i, <1>1, <3>q DEF Request
      <3>2. Keep(r, q) /\ subs'[id].token # 0
        BY <1>i, <1>0, <2>1, <2>4, <3>q, HeldFacts
      <3>3. Promised(id)'
        <4>1. req'[r] = q
          BY <3>2, Typed DEF Keep
        <4> QED
          BY <3>1, <4>1 DEF Promised
      <3>4. CanConfirm(id)'
        BY <3>2, <3>3 DEF CanConfirm, Awaited
      <3> QED
        BY <1>i, <1>1, <1>3, <1>4, <2>1, <2>2, <3>1, <3>2, <3>4, RequestOptIn
    <2> QED
      BY <2>1, <2>3, <2>4
  <1>7. CASE Confirm(r) \/ Vouch(r)
    <2>1. /\ consent' = consent \cup {req[r].email}
          /\ subs'[id].token = subs[id].token /\ subs'[id].confirmed
          /\ req[r].pc \in {"confirm", "vouch", "autoConfirm"}
      BY <1>i, <1>1, <1>7, ConfirmWrites
    <2>2. PICK q : /\ Keep(r, q) /\ q.pc \in {"idle", "setTags"}
                   /\ q.pc = "setTags" => q.id = id /\ q.email = req[r].email
      BY <1>i, <1>7, ConfirmWrites
    <2>3. ActiveMeansConsent'
      BY <1>0, <1>2, <2>1, UpdateConsent
    <2>4. id \notin abandoned' => CanConfirm(id)'
      BY <1>1, <1>3, <2>1 DEF CanConfirm, OptInInv, Pending
    <2>5. q.pc \in Holder => q.pc = "setTags"
      BY <2>2 DEF Holder
    <2> QED
      BY <1>i, <1>1, <1>3, <1>4, <2>1, <2>2, <2>3, <2>4, <2>5, RequestOptIn
  <1>8. CASE Unsubscribe(r)
    <2>1. /\ consent' = consent \ {req[r].email} /\ Keep(r, Idle) /\ req[r].pc = "unsubscribe"
          /\ subs'[id].token = subs[id].token /\ subs'[id].unsubscribed
      BY <1>i, <1>1, <1>8, UnsubscribeWrites
    <2>2. ActiveMeansConsent'
      BY <1>i, <1>0, <1>2, <2>1, UpdateConsent DEF Active
    <2>3. id \notin abandoned' => CanConfirm(id)'
      BY <1>1, <1>3, <2>1 DEF CanConfirm, OptInInv, Pending
    <2>4. Idle.pc \notin Holder
      BY DEF Idle, Holder
    <2> QED
      BY <1>1, <1>3, <1>4, <2>1, <2>2, <2>3, <2>4, RequestOptIn
  <1> QED
    BY <1>5, <1>6, <1>7, <1>8

LEMMA CreateOptIn ==
    ASSUME Types, OptInInv, NEW r \in Requests, CreateStep(r)
    PROVE  OptInInv'
  <1>1. PICK id \in SubIds, q \in Request :
          /\ ~Present(id) /\ \A j \in SubIds \ {id} : subs'[j] = subs[j]
          /\ subs'[id] \in Subscriber /\ subs'[id].email = req[r].email
          /\ subs'[id].token # 0 /\ ~subs'[id].confirmed
          /\ Keep(r, q) /\ q.id = id /\ q.email = req[r].email
          /\ q.pc \in {"tags", "autoConfirm"}
    BY CreateWrites
  <1>2. /\ UNCHANGED <<jobs, runner, inbox, abandoned, consent>>
        /\ req[r].pc \in {"insert", "create"} /\ req[r].email \in Emails
    BY CreateWrites, Typed DEF runVars, AskedFor
  <1>3. subs'[id] # NoSub
    BY <1>1, <1>2, MailAssumption DEF Subscriber, NoSub
  <1>4. ActiveMeansConsent'
    BY <1>1, <1>2 DEF OptInInv, ActiveMeansConsent, Active
  <1>5. req'[r] = q
    BY <1>1, Typed DEF Keep
  <1>6. CanConfirm(id)'
    BY <1>1, <1>5 DEF CanConfirm, Awaited, Promised
  <1> QED
    BY <1>1, <1>2, <1>3, <1>4, <1>6, SameJobs, RequestOptIn

LEMMA EnqueueOptIn ==
    ASSUME Types, OptInInv, NEW r \in Requests, EnqueueConfirmation(r)
    PROVE  OptInInv'
  <1>1. /\ Keep(r, Idle) /\ req[r].pc = "enqueue" /\ req[r].pc \in Holder
        /\ abandoned' = abandoned \ {req[r].id} /\ UNCHANGED <<runner, subs, consent, inbox>>
    BY EnqueueWrites DEF Holder
  <1>2. PICK id \in SubIds : id = req[r].id
    BY <1>1, HeldFacts
  <1>3. Present(id) /\ subs[id].token # 0
    BY <1>1, <1>2, HeldFacts
  <1>4. PICK j \in JobIds :
          /\ jobs[j] = NoRow /\ jobs'[j].kind = ConfirmationJob(id) /\ jobs'[j].status = "queued"
          /\ \A k \in JobIds \ {j} : jobs'[k] = jobs[k]
    BY <1>2, EnqueueWrites
  <1>5. MailKept
    BY <1>1, <1>4 DEF MailKept, MailTo, NoRow
  <1>6. MailTo(j, id)'
    <2>1. ~(runner.pc = "book" /\ runner.id = j)
      BY <1>4, HeldJob DEF Holds, NoRow
    <2> QED
      BY <1>1, <1>4, <2>1 DEF MailTo
  <1>7. CanConfirm(id)'
    BY <1>1, <1>3, <1>6 DEF CanConfirm, Awaited
  <1>8. ActiveMeansConsent'
    BY <1>1 DEF OptInInv, ActiveMeansConsent
  <1>9. Idle.pc \notin Holder
    BY DEF Idle, Holder
  <1> QED
    BY <1>1, <1>2, <1>3, <1>5, <1>7, <1>8, <1>9, RequestOptIn DEF Present

LEMMA FailOptIn ==
    ASSUME Types, OptInInv, NEW r \in Requests, RequestFails(r)
    PROVE  OptInInv'
  <1>1. /\ Keep(r, Idle) /\ abandoned' = abandoned \cup ({req[r].id} \cap SubIds)
        /\ UNCHANGED <<jobs, runner, subs, consent, inbox>>
    BY FailureWrites
  <1>2. req'[r] = Idle /\ Idle.pc \notin Holder /\ \A x \in Requests \ {r} : req'[x] = req[x]
    BY <1>1, Typed DEF Keep, Idle, Holder
  <1>3. HeldRow'
    BY <1>1, <1>2 DEF OptInInv, HeldRow, Present
  <1>4. ASSUME NEW i \in SubIds \ abandoned'
        PROVE  CanConfirm(i)'
    <2>1. i \notin abandoned /\ req[r].id # i
      BY <1>1
    <2>2. Promised(i) => Promised(i)'
      BY <1>2, <2>1 DEF Promised
    <2> QED
      BY <1>1, <2>1, <2>2 DEF OptInInv, CanConfirm, Awaited, MailTo, Pending, Present
  <1>5. ActiveMeansConsent'
    BY <1>1 DEF OptInInv, ActiveMeansConsent
  <1> QED
    BY <1>3, <1>4, <1>5 DEF OptInInv, CanConfirm

(* Without a request that holds its id the row may go. *)
LEMMA DestroyOptIn ==
    ASSUME ~DestroyRaces, Types, OptInInv, Destroy
    PROVE  OptInInv'
  <1>1. UNCHANGED <<jobs, runner, req, consent, inbox>>
    BY DestroyWrites DEF runVars
  <1>2. PICK i \in SubIds :
          /\ \A r \in Requests : req[r].id # i
          /\ subs'[i] = NoSub /\ \A j \in SubIds \ {i} : subs'[j] = subs[j]
          /\ abandoned' = abandoned \ {i}
    BY DestroyWrites
  <1>3. ASSUME NEW r \in Requests, req[r].pc \in Holder
        PROVE  subs'[req[r].id] = subs[req[r].id]
    BY <1>2, <1>3, HolderRow
  <1>4. HeldRow'
    BY <1>1, <1>3 DEF OptInInv, HeldRow, Present
  <1>5. ActiveMeansConsent'
    <2>1. ~Active(NoSub)
      BY DEF Active, NoSub
    <2> QED
      BY <1>1, <1>2, <2>1 DEF OptInInv, ActiveMeansConsent
  <1>6. ASSUME NEW j \in SubIds \ abandoned'
        PROVE  CanConfirm(j)'
    <2>1. CASE j = i
      BY <1>2, <2>1 DEF CanConfirm, Pending, Present
    <2>2. CASE j # i
      <3>1. subs'[j] = subs[j] /\ j \notin abandoned
        BY <1>2, <2>2
      <3> QED
        BY <1>1, <3>1 DEF OptInInv, CanConfirm, Awaited, Promised, MailTo, Pending, Present
    <2> QED
      BY <2>1, <2>2
  <1> QED
    BY <1>4, <1>5, <1>6 DEF OptInInv, CanConfirm

(* A step that touches neither the table nor the requests. *)
LEMMA AsideOptIn ==
    ASSUME OptInInv, MailKept, inbox \subseteq inbox',
           UNCHANGED <<subs, req, consent, abandoned>>
    PROVE  OptInInv'
  <1>1. HeldRow' /\ ActiveMeansConsent'
    BY DEF OptInInv, HeldRow, Present, ActiveMeansConsent
  <1>2. \A i \in SubIds : Awaited(i) => Awaited(i)'
    BY DEF Awaited, Promised, MailKept
  <1> QED
    BY <1>1, <1>2 DEF OptInInv, Pending, Present

LEMMA WebOptIn ==
    ASSUME ~DestroyRaces, Types, OptInInv, WebStep
    PROVE  OptInInv'
  <1>1. CASE \E r \in Requests : (SubscriberStep(r) \/ AdminListStep(r) \/ RequestFails(r))
                                 /\ UNCHANGED newsVars
    <2>1. PICK r \in Requests : RequestSteps(r)
      BY <1>1, RequestCases
    <2> QED
      BY <2>1, ReadOptIn, CreateOptIn, UpdateOptIn, EnqueueOptIn, FailOptIn DEF RequestSteps
  <1>2. CASE Destroy /\ UNCHANGED newsVars
    BY <1>2, DestroyOptIn
  <1>3. CASE UpdateNewsletterSetting \/ UpdateListmonk
    <2>1. UNCHANGED <<jobs, runner, subs, req, consent, inbox, abandoned>>
      BY <1>3, SettingsWrites DEF runVars
    <2> QED
      BY <2>1, SameJobs, AsideOptIn
  <1>4. CASE DestroyArticle
    <2>1. UNCHANGED <<jobs, runner, subs, req, consent, inbox, abandoned>>
      BY <1>4 DEF DestroyArticle, runVars, subVars
    <2> QED
      BY <2>1, SameJobs, AsideOptIn
  <1>5. CASE RequestIssue
    <2>1. UNCHANGED <<runner, subs, req, consent, inbox, abandoned>>
      BY <1>5, IssueRequested DEF subVars
    <2>2. PICK j \in JobIds : jobs[j] = NoRow /\ \A k \in JobIds \ {j} : jobs'[k] = jobs[k]
      BY <1>5, IssueRequested
    <2>3. MailKept
      BY <2>1, <2>2 DEF MailKept, MailTo, NoRow
    <2> QED
      BY <2>1, <2>3, AsideOptIn
  <1> QED
    BY <1>1, <1>2, <1>3, <1>4, <1>5 DEF WebStep

LEMMA ConfirmationOptIn ==
    ASSUME Types, OptInInv, SendConfirmation \/ ConfirmationFails
    PROVE  OptInInv'
  <1>1. /\ runner.pc \in Holds \ {"book"}
        /\ UNCHANGED <<jobs, subs, req, consent, abandoned>>
    BY ConfirmationMoves
  <1>2. PICK i \in SubIds :
          /\ jobs[runner.id].kind = ConfirmationJob(i)
          /\ \/ /\ Returned("ok") /\ inbox \subseteq inbox'
                /\ Present(i) => <<subs[i].email, subs[i].token>> \in inbox'
             \/ Returned("error") /\ UNCHANGED inbox
             \/ Returned("canceled") /\ UNCHANGED inbox
    BY ConfirmationMoves
  <1>3. HeldRow' /\ ActiveMeansConsent'
    BY <1>1 DEF OptInInv, HeldRow, Present, ActiveMeansConsent
  <1>4. ASSUME NEW k \in SubIds, Present(k), Awaited(k)
        PROVE  Awaited(k)'
    <2>1. CASE Promised(k)
      BY <1>1, <2>1 DEF Awaited, Promised
    <2>2. CASE <<subs[k].email, subs[k].token>> \in inbox
      BY <1>1, <1>2, <2>2 DEF Awaited
    <2>3. CASE \E j \in JobIds : MailTo(j, k)
      <3>1. PICK j \in JobIds : MailTo(j, k)
        BY <2>3
      <3>2. CASE j # runner.id \/ ~Returned("ok")
        <4>1. MailTo(j, k)'
          BY <1>1, <1>2, <3>1, <3>2 DEF MailTo, Returned
        <4> QED
          BY <4>1 DEF Awaited
      <3>3. CASE j = runner.id /\ Returned("ok")
        <4>1. k = i
          BY <1>2, <3>1, <3>3, KindsDiffer DEF MailTo
        <4>2. <<subs[k].email, subs[k].token>> \in inbox'
          BY <1>2, <1>4, <3>3, <4>1 DEF Returned
        <4> QED
          BY <1>1, <4>2 DEF Awaited
      <3> QED
        BY <3>2, <3>3
    <2> QED
      BY <1>4, <2>1, <2>2, <2>3 DEF Awaited
  <1>5. \A k \in SubIds \ abandoned : CanConfirm(k)'
    BY <1>1, <1>4 DEF OptInInv, CanConfirm, Pending, Present
  <1> QED
    BY <1>1, <1>3, <1>5 DEF OptInInv, CanConfirm

LEMMA IssueOptIn ==
    ASSUME Types, IssueInv, OptInInv, IssueStep
    PROVE  OptInInv'
  <1>1. /\ runner.pc \in Holds \ {"book"} /\ runner'.id = runner.id
        /\ UNCHANGED <<jobs, subs, req, consent, inbox, abandoned>>
    BY IssueSteps DEF IssueFrame
  <1>2. jobs[runner.id].kind = Issue
    <2>1. CASE LoadIssue \/ LoadIssueFails
      BY <2>1, LoadMoves, LoadFailMoves
    <2>2. CASE ~(LoadIssue \/ LoadIssueFails)
      <3>1. runner.pc \in {"visit", "act", "write"}
        BY <2>2 DEF IssueStep, SendIssue, SendIssueFails, SendIssueCanceled, IssueSent,
                    CreateCampaign, StartCampaign, CampaignCanceled
      <3> QED
        BY <3>1 DEF IssueInv
    <2> QED
      BY <2>1, <2>2
  <1>3. MailKept
    BY <1>1, <1>2, KindsDiffer DEF MailKept, MailTo
  <1> QED
    BY <1>1, <1>3, AsideOptIn

LEMMA RunOptIn ==
    ASSUME Types, OptInInv, RunStep
    PROVE  OptInInv'
  <1>1. /\ RowsKept /\ UNCHANGED <<subs, req, consent, inbox, abandoned>>
        /\ \/ Book /\ runner.pc = "book" /\ runner'.pc \in {"idle", "down"}
           \/ /\ ~Book /\ runner.pc \in {"idle", "claim", "down"}
              /\ runner'.pc \in {"idle", "claim", "load"}
    BY RunStepMoves DEF subVars
  <1>2. MailKept
    BY <1>1 DEF MailKept, MailTo, RowsKept
  <1> QED
    BY <1>1, <1>2, AsideOptIn

LEMMA CrashOptIn ==
    ASSUME Types, OptInInv, CrashProcess
    PROVE  OptInInv'
  <1>1. /\ runner'.pc = "down" /\ UNCHANGED <<jobs, subs, consent, inbox>>
        /\ req' = [r \in Requests |-> Idle]
        /\ abandoned' = abandoned \cup ({req[r].id : r \in Requests} \cap SubIds)
    BY CrashMoves
  <1>2. HeldRow'
    <2>1. Idle.pc \notin Holder
      BY DEF Idle, Holder
    <2> QED
      BY <1>1, <2>1 DEF HeldRow
  <1>3. ASSUME NEW i \in SubIds \ abandoned'
        PROVE  CanConfirm(i)'
    <2>1. i \notin abandoned /\ ~Promised(i)
      BY <1>1 DEF Promised
    <2> QED
      BY <1>1, <2>1 DEF OptInInv, CanConfirm, Awaited, MailTo, Pending, Present
  <1>4. ActiveMeansConsent'
    BY <1>1 DEF OptInInv, ActiveMeansConsent
  <1> QED
    BY <1>2, <1>3, <1>4 DEF OptInInv, CanConfirm

LEMMA NextOptIn ==
    ASSUME ~DestroyRaces, Types, IssueInv, OptInInv, [Next]_vars
    PROVE  OptInInv'
  <1>1. CASE PassTime \/ UNCHANGED vars
    <2>1. UNCHANGED <<jobs, runner, subs, req, consent, inbox, abandoned>>
      BY <1>1, TickMoves, StutterMoves DEF subVars
    <2> QED
      BY <2>1, SameJobs, AsideOptIn
  <1> QED
    BY <1>1, WebOptIn, ConfirmationOptIn, IssueOptIn, RunOptIn, CrashOptIn DEF Next, HandlerStep

LEMMA InitOptIn == Init => OptInInv
  <1> SUFFICES ASSUME Init PROVE OptInInv
    OBVIOUS
  <1>1. PICK e \in Emails : \E row \in Imported(e) :
          /\ subs = [i \in SubIds |-> IF i = 1 THEN row ELSE NoSub]
          /\ consent = IF row.confirmed THEN {e} ELSE {}
    BY DEF Init, SubInit
  <1>2. PICK row \in Imported(e) :
          /\ subs = [i \in SubIds |-> IF i = 1 THEN row ELSE NoSub]
          /\ consent = IF row.confirmed THEN {e} ELSE {}
    BY <1>1
  <1>3. req = [r \in Requests |-> Idle] /\ abandoned = {1}
    BY DEF Init, SubInit
  <1>4. HeldRow
    <2>1. Idle.pc \notin Holder
      BY DEF Idle, Holder
    <2> QED
      BY <1>3, <2>1 DEF HeldRow
  <1>5. row.confirmed => row.email = e
    <2>1. NoSub \in [email : {NoEmail}, token : {0}, leave : {0}, confirmed : {FALSE},
                     unsubscribed : {FALSE}, tags : {{}}]
      BY DEF NoSub
    <2> QED
      BY <2>1 DEF Imported
  <1>6. ActiveMeansConsent
    BY <1>2, <1>5 DEF ActiveMeansConsent, Active, NoSub
  <1>7. \A i \in SubIds \ abandoned : ~Present(i)
    BY <1>2, <1>3 DEF Present
  <1> QED
    BY <1>4, <1>6, <1>7 DEF OptInInv, Pending

(* Double opt-in: as long as no row is destroyed under a request that      *)
(* holds its id, every address that would be mailed an issue followed a    *)
(* link mailed to it, or was vouched for by an admin, since it last        *)
(* unsubscribed, for any number of addresses and interleaved requests      *)
(* (subscriptions.go, subscribers_admin.go).                               *)
THEOREM MailedWithConsent == ~DestroyRaces /\ Spec => []ActiveMeansConsent
  <1> SUFFICES ASSUME ~DestroyRaces PROVE Spec => []ActiveMeansConsent
    OBVIOUS
  <1>1. OptInInv => ActiveMeansConsent
    BY DEF OptInInv
  <1>2. Init => Types /\ IssueInv /\ OptInInv
    BY InitTypes, InitIssue, InitOptIn
  <1>3. Types /\ IssueInv /\ OptInInv /\ [Next]_vars => (Types /\ IssueInv /\ OptInInv)'
    BY NextTypes, NextIssue, NextOptIn
  <1> QED
    BY <1>1, <1>2, <1>3, PTL DEF Spec

(* Under the same condition a pending address whose request succeeded can  *)
(* still be confirmed: its mail is to be sent, or was delivered with the   *)
(* token the row has now (subscriptionsCreate, sendConfirmation).          *)
THEOREM PendingIsConfirmable == ~DestroyRaces /\ Spec => []PendingCanConfirm
  <1> SUFFICES ASSUME ~DestroyRaces PROVE Spec => []PendingCanConfirm
    OBVIOUS
  <1>1. OptInInv => PendingCanConfirm
    <2> SUFFICES ASSUME OptInInv, NEW i \in SubIds \ abandoned, Pending(i)
                 PROVE  \/ \E r \in Requests : req[r].id = i
                        \/ \E j \in JobIds : jobs[j].kind = ConfirmationJob(i)
                                             /\ jobs[j].status \in {"queued", "running", "failed"}
                        \/ subs[i].token # 0 /\ <<subs[i].email, subs[i].token>> \in inbox
      BY DEF PendingCanConfirm
    <2>1. subs[i].token # 0 /\ Awaited(i)
      BY DEF OptInInv, Pending
    <2> QED
      BY <2>1 DEF Awaited, Promised, MailTo
  <1>2. Init => Types /\ IssueInv /\ OptInInv
    BY InitTypes, InitIssue, InitOptIn
  <1>3. Types /\ IssueInv /\ OptInInv /\ [Next]_vars => (Types /\ IssueInv /\ OptInInv)'
    BY NextTypes, NextIssue, NextOptIn
  <1> QED
    BY <1>1, <1>2, <1>3, PTL DEF Spec
=============================================================================
