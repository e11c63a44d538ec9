--------------------------- MODULE Subscriptions ---------------------------
(***************************************************************************)
(* The subscribers table and the requests that write it: the public double *)
(* opt-in of internal/httpd/subscriptions.go (subscribe, confirm link,     *)
(* unsubscribe link) and the admin's list of subscribers_admin.go.  Each   *)
(* request reads a row and then writes by id, one statement per step and   *)
(* outside a transaction, so requests of one address interleave.           *)
(* Newsletter composes this module with the jobs that send the mail.       *)
(***************************************************************************)
EXTENDS HandlerRuns

CONSTANTS
    Emails,       \* normalized, valid addresses
    Tags,         \* tags a subscriber may choose
    Requests,     \* requests that may be under way at once
    MaxSubs,      \* bound: subscriber ids are 1..MaxSubs
    MaxTokens,    \* bound on generated tokens
    Budgets,      \* bound: the mixes of requests, issues and edits a behaviour may have
    DestroyRaces  \* TRUE: a row may be destroyed under a request that holds its id

ASSUME SubscriptionsAssumption ==
    /\ MaxSubs \in Nat \ {0} /\ MaxTokens \in Nat \ {0}
    /\ Budgets \subseteq [requests : Nat, issues : Nat, edits : Nat, mishaps : Nat]
    /\ DestroyRaces \in BOOLEAN

VARIABLES
    subs,       \* the subscribers table with its subscriber_tags
    tokens,     \* tokens generated so far
    req,        \* the requests under way
    budget,     \* what may still be asked
    consent,    \* ghost: addresses whose owner followed a link, or an admin vouched for, since they last unsubscribed
    inbox,      \* ghost: confirmation links delivered, <<address, token>>
    letters,    \* ghost: unsubscribe links delivered, <<address, token>>
    abandoned   \* ghost: ids whose last request ended with an error page

subVars == <<subs, tokens, req, budget, consent, inbox, letters, abandoned>>

SubIds == 1..MaxSubs

NoEmail == "none"

(* token 0 is the blank token of an imported row; unsubscribe_token never   *)
(* changes and is named by the token the row was created with.              *)
NoSub == [email |-> NoEmail, token |-> 0, leave |-> 0, confirmed |-> FALSE,
          unsubscribed |-> FALSE, tags |-> {}]

Subscriber == [email : Emails, token : 0..MaxTokens, leave : 0..MaxTokens,
               confirmed : BOOLEAN, unsubscribed : BOOLEAN, tags : SUBSET Tags]

ConfirmationJob(i) == [job |-> "confirmation", id |-> i]

ASSUME MailAssumption ==
    NoEmail \notin Emails /\ \A i \in SubIds : ConfirmationJob(i) \in Kinds

Request == [pc : {"idle", "insert", "reload", "reset", "fill", "tags", "enqueue",
                  "create", "autoConfirm", "vouch", "setTags", "confirm", "unsubscribe"},
            email : Emails \cup {NoEmail}, id : {0} \cup SubIds, tags : SUBSET Tags]

Idle == [pc |-> "idle", email |-> NoEmail, id |-> 0, tags |-> {}]

(* Rows an import may have left: none, one that never got a token, one that *)
(* is active and has an issue with its unsubscribe link in its mailbox.     *)
Imported(e) ==
    {NoSub,
     [NoSub EXCEPT !.email = e],
     [NoSub EXCEPT !.email = e, !.token = 1, !.leave = 1, !.confirmed = TRUE]}

SubInit ==
    /\ \E e \in Emails : \E row \in Imported(e) :
        /\ subs = [i \in SubIds |-> IF i = 1 THEN row ELSE NoSub]
        /\ consent = IF row.confirmed THEN {e} ELSE {}
        /\ letters = IF row.confirmed THEN {<<e, 1>>} ELSE {}
    /\ tokens = 1
    /\ req = [r \in Requests |-> Idle]
    /\ budget \in Budgets
    /\ inbox = {}
    /\ abandoned = {1}

-----------------------------------------------------------------------------
(* Statements of queries/subscribers.sql.                                   *)

Present(i) == subs[i] # NoSub

GetSubscriberByEmail(e) == {i \in SubIds : subs[i].email = e}

Active(row) == row.confirmed /\ ~row.unsubscribed

(* An UPDATE by id: nothing happens when the row is gone. *)
Set(i, row) == IF Present(i) THEN [subs EXCEPT ![i] = row] ELSE subs

ConfirmSubscriber(i) == Set(i, [subs[i] EXCEPT !.confirmed = TRUE])

(* Faulty: the old confirmation is kept. *)
MutResetSubscriberForResubscribe(i, token) ==
    Set(i, [subs[i] EXCEPT !.token = token, !.unsubscribed = FALSE])

ResetSubscriberForResubscribe(i, token) ==
    Set(i, [subs[i] EXCEPT !.token = token, !.confirmed = FALSE, !.unsubscribed = FALSE])

SetSubscriberConfirmationToken(i, token) == Set(i, [subs[i] EXCEPT !.token = token])

UnsubscribeSubscriber(i) == Set(i, [subs[i] EXCEPT !.unsubscribed = TRUE])

(* The id of a deleted last row is given out again (no AUTOINCREMENT).      *)
IsNextSubId(i) ==
    /\ \A j \in SubIds : Present(j) => j < i
    /\ i > 1 => Present(i - 1)

(* Both tokens are generated; a blank one never is. *)
CreateSubscriber(i, e) ==
    [subs EXCEPT ![i] = [NoSub EXCEPT !.email = e, !.token = tokens + 1, !.leave = tokens + 1]]

Keep(r, next) == req' = [req EXCEPT ![r] = next]

Goto(r, pc) == Keep(r, [req[r] EXCEPT !.pc = pc])

NewToken == tokens < MaxTokens /\ tokens' = tokens + 1

-----------------------------------------------------------------------------
(* subscriptionsCreate.                                                     *)

(* Where the request goes on for the row it read: an active one is left     *)
(* alone, one that left starts over, a blank token is filled in.            *)
NextPc(row) ==
    CASE Active(row) -> "idle"
      [] row.unsubscribed -> "reset"
      [] ~Active(row) /\ ~row.unsubscribed /\ row.token = 0 -> "fill"
      [] OTHER -> "tags"

Found(r, e, tags) ==
    \E i \in GetSubscriberByEmail(e) :
        Keep(r, IF NextPc(subs[i]) = "idle" THEN Idle
                ELSE [pc |-> NextPc(subs[i]), email |-> e, id |-> i, tags |-> tags])

Spend(what) == budget[what] > 0 /\ budget' = [budget EXCEPT ![what] = @ - 1]

Ask(r) == Serving /\ req[r] = Idle /\ Spend("requests")

(* Captcha and address checks passed; they write nothing. *)
Subscribe(r) ==
    /\ Ask(r)
    /\ \E e \in Emails, tags \in SUBSET Tags :
        IF GetSubscriberByEmail(e) # {} THEN Found(r, e, tags)
        ELSE Keep(r, [pc |-> "insert", email |-> e, id |-> 0, tags |-> tags])
    /\ UNCHANGED <<runVars, subs, tokens, consent, inbox, letters, abandoned>>

(* createSubscriber: UNIQUE(email) sends the loser of an insert race back   *)
(* to read the winner's row.                                                *)
Insert(r) ==
    /\ req[r].pc = "insert"
    /\ IF GetSubscriberByEmail(req[r].email) # {}
       THEN Goto(r, "reload") /\ UNCHANGED <<subs, tokens>>
       ELSE \E i \in SubIds :
                /\ IsNextSubId(i) /\ NewToken
                /\ subs' = CreateSubscriber(i, req[r].email)
                /\ Keep(r, [req[r] EXCEPT !.pc = "tags", !.id = i])
    /\ UNCHANGED <<runVars, budget, consent, inbox, letters, abandoned>>

Reload(r) ==
    /\ req[r].pc = "reload"
    /\ IF GetSubscriberByEmail(req[r].email) # {} THEN Found(r, req[r].email, req[r].tags)
       ELSE Keep(r, Idle)
    /\ UNCHANGED <<runVars, subs, tokens, budget, consent, inbox, letters, abandoned>>

Renew(r) ==
    /\ req[r].pc \in {"reset", "fill"} /\ NewToken
    /\ subs' = IF req[r].pc = "reset" THEN ResetSubscriberForResubscribe(req[r].id, tokens + 1)
               ELSE SetSubscriberConfirmationToken(req[r].id, tokens + 1)
    /\ Goto(r, "tags")
    /\ UNCHANGED <<runVars, budget, consent, inbox, letters, abandoned>>

(* subscribers.ReplaceTags, one transaction.  A tag of a row that is gone   *)
(* breaks its foreign key and the request ends with an error.               *)
ReplaceTags(r, then) ==
    LET i == req[r].id IN
    /\ subs' = Set(i, [subs[i] EXCEPT !.tags = req[r].tags])
    /\ IF Present(i) \/ req[r].tags = {} THEN then ELSE Keep(r, Idle)

ChooseTags(r) ==
    /\ req[r].pc = "tags"
    /\ ReplaceTags(r, Goto(r, "enqueue"))
    /\ UNCHANGED <<runVars, tokens, budget, consent, inbox, letters, abandoned>>

EnqueueConfirmation(r) ==
    /\ req[r].pc = "enqueue"
    /\ \E i \in JobIds :
        /\ IsNextRowId(jobs, i)
        /\ jobs' = EnqueueJobRun(jobs, i, ConfirmationJob(req[r].id), clock, clock)
    /\ Keep(r, Idle)
    /\ abandoned' = abandoned \ {req[r].id}
    /\ UNCHANGED <<clock, runner, faults, crashes, subs, tokens, budget, consent, inbox, letters>>

-----------------------------------------------------------------------------
(* The links in the mails.  Both handlers look the row up by the token and  *)
(* write by its id.                                                         *)

FollowConfirmLink(r) ==
    /\ Ask(r)
    /\ \E link \in inbox : link[2] # 0 /\
        LET ids == {i \in SubIds : subs[i].token = link[2]} IN
        IF \E i \in ids : ~subs[i].confirmed
        THEN \E i \in ids :
                Keep(r, [Idle EXCEPT !.pc = "confirm", !.email = subs[i].email, !.id = i])
        ELSE Keep(r, Idle)
    /\ UNCHANGED <<runVars, subs, tokens, consent, inbox, letters, abandoned>>

FollowUnsubscribeLink(r) ==
    /\ Ask(r)
    /\ \E link \in letters : link[2] # 0 /\
        LET ids == {i \in SubIds : subs[i].leave = link[2]} IN
        IF \E i \in ids : ~subs[i].unsubscribed
        THEN \E i \in ids :
                Keep(r, [Idle EXCEPT !.pc = "unsubscribe", !.email = subs[i].email, !.id = i])
        ELSE Keep(r, Idle)
    /\ UNCHANGED <<runVars, subs, tokens, consent, inbox, letters, abandoned>>

Confirm(r) ==
    /\ req[r].pc = "confirm"
    /\ subs' = ConfirmSubscriber(req[r].id)
    /\ consent' = consent \cup {req[r].email}
    /\ Keep(r, Idle)
    /\ UNCHANGED <<runVars, tokens, budget, inbox, letters, abandoned>>

Unsubscribe(r) ==
    /\ req[r].pc = "unsubscribe"
    /\ subs' = UnsubscribeSubscriber(req[r].id)
    /\ consent' = consent \ {req[r].email}
    /\ Keep(r, Idle)
    /\ UNCHANGED <<runVars, tokens, budget, inbox, letters, abandoned>>

-----------------------------------------------------------------------------
(* The admin's list.                                                        *)

(* One line of adminSubscribersBatchCreate.  A row that exists only takes   *)
(* the tags the line gives.                                                 *)
BatchCreate(r) ==
    /\ Ask(r)
    /\ \E e \in Emails, tags \in SUBSET Tags :
        LET ids == GetSubscriberByEmail(e)
            line == [pc |-> "create", email |-> e, id |-> 0, tags |-> tags] IN
        Keep(r, IF ids = {} THEN line
                ELSE IF tags = {} THEN Idle
                ELSE [line EXCEPT !.pc = "setTags", !.id = CHOOSE i \in ids : TRUE])
    /\ UNCHANGED <<runVars, subs, tokens, consent, inbox, letters, abandoned>>

(* A lost insert race is an error of the line. *)
BatchInsert(r) ==
    /\ req[r].pc = "create"
    /\ IF GetSubscriberByEmail(req[r].email) # {}
       THEN Keep(r, Idle) /\ UNCHANGED <<subs, tokens>>
       ELSE \E i \in SubIds :
                /\ IsNextSubId(i) /\ NewToken
                /\ subs' = CreateSubscriber(i, req[r].email)
                /\ Keep(r, [req[r] EXCEPT !.pc = "autoConfirm", !.id = i])
    /\ UNCHANGED <<runVars, budget, consent, inbox, letters, abandoned>>

(* adminSubscribersBatchConfirm: pending rows only. *)
BatchConfirm(r) ==
    /\ Ask(r)
    /\ \E i \in SubIds :
        /\ Present(i) /\ ~subs[i].confirmed /\ ~subs[i].unsubscribed
        /\ Keep(r, [Idle EXCEPT !.pc = "vouch", !.email = subs[i].email, !.id = i])
    /\ UNCHANGED <<runVars, subs, tokens, consent, inbox, letters, abandoned>>

(* The ConfirmSubscriber of both batches; a created row goes on to its tags. *)
Vouch(r) ==
    /\ req[r].pc \in {"vouch", "autoConfirm"}
    /\ subs' = ConfirmSubscriber(req[r].id)
    /\ consent' = consent \cup {req[r].email}
    /\ IF req[r].pc = "vouch" THEN Keep(r, Idle) ELSE Goto(r, "setTags")
    /\ UNCHANGED <<runVars, tokens, budget, inbox, letters, abandoned>>

SetTags(r) ==
    /\ req[r].pc = "setTags"
    /\ ReplaceTags(r, Keep(r, Idle))
    /\ UNCHANGED <<runVars, tokens, budget, consent, inbox, letters, abandoned>>

(* subscribers.Destroy takes the row and its tags, and no job. *)
Destroy ==
    /\ Serving
    /\ \E i \in SubIds :
        /\ Present(i)
        /\ DestroyRaces \/ \A r \in Requests : req[r].id # i
        /\ subs' = [subs EXCEPT ![i] = NoSub]
        /\ abandoned' = abandoned \ {i}
    /\ UNCHANGED <<runVars, tokens, req, budget, consent, inbox, letters>>

-----------------------------------------------------------------------------
(* A statement fails, or the client goes away: an error page, and what was  *)
(* written stays.                                                           *)
RequestFails(r) ==
    /\ req[r] # Idle /\ faults < MaxFaults
    /\ faults' = faults + 1
    /\ Keep(r, Idle)
    /\ abandoned' = abandoned \cup ({req[r].id} \cap SubIds)
    /\ UNCHANGED <<clock, jobs, runner, crashes, subs, tokens, budget, consent, inbox, letters>>

(* A crash takes every request with it. *)
RequestsDie ==
    /\ req' = [r \in Requests |-> Idle]
    /\ abandoned' = abandoned \cup ({req[r].id : r \in Requests} \cap SubIds)
    /\ UNCHANGED <<subs, tokens, budget, consent, inbox, letters>>

SubscriberStep(r) ==
    \/ Subscribe(r) \/ Insert(r) \/ Reload(r) \/ Renew(r) \/ ChooseTags(r) \/ EnqueueConfirmation(r)
    \/ FollowConfirmLink(r) \/ Confirm(r)
    \/ FollowUnsubscribeLink(r) \/ Unsubscribe(r)

AdminListStep(r) ==
    \/ BatchCreate(r) \/ BatchInsert(r) \/ BatchConfirm(r) \/ Vouch(r) \/ SetTags(r)

-----------------------------------------------------------------------------
(* Properties.                                                              *)

SubTypeOK ==
    /\ subs \in [SubIds -> Subscriber \cup {NoSub}]
    /\ \A i, j \in SubIds : Present(i) /\ subs[i].email = subs[j].email => i = j
    /\ tokens \in 1..MaxTokens
    /\ req \in [Requests -> Request]
    /\ inbox \subseteq Emails \X (0..MaxTokens) /\ letters \subseteq Emails \X (0..MaxTokens)
    /\ consent \subseteq Emails /\ abandoned \subseteq SubIds

Pending(i) == Present(i) /\ ~subs[i].confirmed /\ ~subs[i].unsubscribed

(* "the confirmation email enqueued below must link a usable token": an     *)
(* address whose request was answered with success can still be confirmed.  *)
(* Its confirmation row is to run, running or out of attempts, or a mail    *)
(* with the row's present token was delivered, unless a later request that  *)
(* holds the row is under way or ended with an error.                       *)
PendingCanConfirm ==
    \A i \in SubIds \ abandoned :
        Pending(i) =>
            \/ \E r \in Requests : req[r].id = i
            \/ \E j \in JobIds : jobs[j].kind = ConfirmationJob(i)
                                 /\ jobs[j].status \in {"queued", "running", "failed"}
            \/ subs[i].token # 0 /\ <<subs[i].email, subs[i].token>> \in inbox

(* Double opt-in: every address that would be mailed an issue was confirmed *)
(* through a link mailed to it, or by an admin, since it last unsubscribed. *)
ActiveMeansConsent ==
    \A i \in SubIds : Active(subs[i]) => subs[i].email \in consent
=============================================================================
