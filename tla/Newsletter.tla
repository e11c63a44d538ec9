----------------------------- MODULE Newsletter -----------------------------
(***************************************************************************)
(* The mail jobs of internal/service/newsletter: confirmation mails, and   *)
(* one issue sent either natively, one mail per relevant subscriber, or as *)
(* a listmonk campaign that is created and then started.  The provider and *)
(* its settings are read when the job runs, so a rerun may go another way  *)
(* than the run it repeats.  The subscribers are those of Subscriptions.   *)
(***************************************************************************)
EXTENDS Subscriptions

VARIABLES
    settings,     \* newsletter_settings and whether the listmonk row is complete
    article,      \* the article of the issue: its tags, or Gone
    sending,      \* the handler's locals: recipients still to visit, lowest id first
    delivered,    \* ghost: native deliveries of the issue per address
    campaigns,    \* ghost: listmonk campaigns started for the issue
    interrupted   \* ghost: runs of the issue's job cut off by a crash or a shutdown

newsVars == <<settings, article, sending, delivered, campaigns, interrupted>>
vars == <<runVars, subVars, newsVars>>

Gone == {"gone"}

Issue == [job |-> "issue", id |-> 0]

ASSUME NewsletterAssumption == Issue \in Kinds

(* smtp: address, port, user, password and sender are all filled in;        *)
(* listmonk: list and template are, beside the credentials.                 *)
Settings == [enabled : BOOLEAN, provider : {"native", "listmonk"},
             smtp : BOOLEAN, listmonk : BOOLEAN]

Init ==
    /\ RunInit /\ SubInit
    /\ settings = [enabled |-> TRUE, provider |-> "native", smtp |-> TRUE, listmonk |-> TRUE]
    /\ article \in IF budget.issues = 0 THEN {{}} ELSE SUBSET Tags
    /\ sending = {}
    /\ delivered = [e \in Emails |-> 0]
    /\ campaigns = 0
    /\ interrupted = 0

-----------------------------------------------------------------------------
(* Requests.                                                                *)

(* updateNewsletterSetting: the submitted fields over the stored row.  A    *)
(* blank or masked password keeps the stored one, other SMTP fields may be  *)
(* blanked; only a sender address is required of enabled native settings.   *)
UpdateNewsletterSetting ==
    /\ Serving /\ Spend("edits")
    /\ \E enabled, smtp \in BOOLEAN, provider \in {"native", "listmonk"} :
        settings' = [settings EXCEPT !.enabled = enabled, !.provider = provider, !.smtp = smtp]
    /\ UNCHANGED <<runVars, subs, tokens, req, consent, inbox, letters, abandoned,
                   article, sending, delivered, campaigns, interrupted>>

(* updateListmonk: credentials are required, the list and template are not. *)
UpdateListmonk ==
    /\ Serving /\ Spend("edits")
    /\ settings' = [settings EXCEPT !.listmonk = ~@]
    /\ UNCHANGED <<runVars, subs, tokens, req, consent, inbox, letters, abandoned,
                   article, sending, delivered, campaigns, interrupted>>

(* NewsletterReady, asked when the issue is requested: of listmonk only the *)
(* credentials, which are always there.                                     *)
NewsletterReady == settings.enabled /\ (settings.provider = "native" => settings.smtp)

(* settingConfigured, asked when it is sent: of listmonk also the list and  *)
(* the template.                                                            *)
SettingConfigured ==
    /\ settings.enabled
    /\ IF settings.provider = "native" THEN settings.smtp ELSE settings.listmonk

(* EnqueuePublishEffects with the newsletter selected.  Bound: one issue.   *)
RequestIssue ==
    /\ Serving /\ article # Gone /\ NewsletterReady
    /\ budget.issues > 0 /\ \A i \in JobIds : jobs[i].kind # Issue
    /\ \E i \in JobIds :
        /\ IsNextRowId(jobs, i)
        /\ jobs' = EnqueueJobRun(jobs, i, Issue, clock, clock)
    /\ UNCHANGED <<clock, runner, faults, crashes, subVars, newsVars>>

(* articles.Destroy leaves the issue's row in the queue. *)
DestroyArticle ==
    /\ Serving /\ article # Gone
    /\ \E i \in JobIds : jobs[i].kind = Issue
    /\ article' = Gone
    /\ UNCHANGED <<runVars, subVars, settings, sending, delivered, campaigns, interrupted>>

-----------------------------------------------------------------------------
(* Handlers.                                                                *)

Running(kind) == runner.pc \in {"load", "visit", "act", "write"} /\ jobs[runner.id].kind = kind

(* The handler returns without an error, with one, or with ctx's            *)
(* cancellation.                                                            *)
Return(outcome) == runner' = [runner EXCEPT !.pc = "book", !.outcome = outcome]

(* Faulty: a failed send is logged and the job is done. *)
MutConfirmationFails ==
    /\ \E i \in SubIds : Running(ConfirmationJob(i))
    /\ faults < MaxFaults /\ faults' = faults + 1
    /\ Return("ok")
    /\ UNCHANGED <<clock, jobs, crashes, subVars, newsVars>>

(* sendConfirmation: the row is read when the job runs, so the mail carries *)
(* the present token; a row that is gone is no error.                       *)
SendConfirmation ==
    /\ \E i \in SubIds :
        /\ Running(ConfirmationJob(i))
        /\ inbox' = IF Present(i) THEN inbox \cup {<<subs[i].email, subs[i].token>>} ELSE inbox
    /\ Return("ok")
    /\ UNCHANGED <<clock, jobs, faults, crashes, subs, tokens, req, budget, consent, letters, abandoned, newsVars>>

(* A failed statement or send is returned and retried. *)
ConfirmationFails ==
    /\ \E i \in SubIds : Running(ConfirmationJob(i))
    /\ ReturnError
    /\ UNCHANGED <<subVars, newsVars>>

(* FilterRelevant: active rows that chose no tag, or one of the article's.  *)
Relevant == {i \in SubIds : Present(i) /\ Active(subs[i])
                            /\ (subs[i].tags = {} \/ subs[i].tags \cap article # {})}

Recipients == {[id |-> i, email |-> subs[i].email, leave |-> subs[i].leave] : i \in Relevant}

(* The loop's next recipient: ORDER BY id.                                  *)
NextRecipient == {m \in sending : \A n \in sending : m.id <= n.id}

(* sendNewsletter dispatches; sendNative and sendListmonk check the article *)
(* and the settings.  A missing article fails the native job only.          *)
LoadIssue ==
    /\ runner.pc = "load" /\ Running(Issue)
    /\ CASE article = Gone -> Return(IF settings.provider = "native" THEN "error" ELSE "ok")
                              /\ UNCHANGED sending
         [] article # Gone /\ ~SettingConfigured -> Return("ok") /\ UNCHANGED sending
         [] article # Gone /\ SettingConfigured /\ settings.provider = "native" ->
               sending' = Recipients /\ runner' = [runner EXCEPT !.pc = "visit"]
         [] OTHER -> UNCHANGED sending /\ runner' = [runner EXCEPT !.pc = "act"]
    /\ UNCHANGED <<clock, jobs, faults, crashes, subVars, settings, article,
                   delivered, campaigns, interrupted>>

(* A failing read ends the run before anything is sent. *)
LoadIssueFails ==
    /\ runner.pc = "load" /\ Running(Issue) /\ faults < MaxFaults
    /\ faults' = faults + 1
    /\ Return("error")
    /\ UNCHANGED <<clock, jobs, crashes, subVars, newsVars>>

(* One mail of the loop: delivered ...                                      *)
SendIssue ==
    /\ runner.pc = "visit"
    /\ \E m \in NextRecipient :
        /\ sending' = sending \ {m}
        /\ delivered' = [delivered EXCEPT ![m.email] = @ + 1]
        /\ letters' = letters \cup {<<m.email, m.leave>>}
    /\ UNCHANGED <<runVars, subs, tokens, req, budget, consent, inbox, abandoned,
                   settings, article, campaigns, interrupted>>

(* Faulty: one failed recipient fails the job. *)
MutSendIssueFails ==
    /\ runner.pc = "visit" /\ sending # {} /\ faults < MaxFaults
    /\ faults' = faults + 1
    /\ sending' = {}
    /\ Return("error")
    /\ UNCHANGED <<clock, jobs, crashes, subVars, settings, article, delivered, campaigns, interrupted>>

(* ... refused: logged, and the loop goes on ...                            *)
SendIssueFails ==
    /\ runner.pc = "visit" /\ faults < MaxFaults
    /\ faults' = faults + 1
    /\ \E m \in NextRecipient : sending' = sending \ {m}
    /\ UNCHANGED <<clock, jobs, runner, crashes, subVars, settings, article, delivered, campaigns, interrupted>>

(* Faulty: the cancellation is counted as a failed recipient. *)
MutSendIssueCanceled ==
    /\ runner.pc = "visit" /\ sending # {} /\ crashes < MaxCrashes
    /\ crashes' = crashes + 1
    /\ Return("ok")
    /\ UNCHANGED <<clock, jobs, faults, subVars, newsVars>>

(* ... cut off by a shutdown, possibly after the server took the mail.      *)
SendIssueCanceled ==
    /\ runner.pc = "visit" /\ sending # {} /\ crashes < MaxCrashes
    /\ crashes' = crashes + 1
    /\ \/ \E m \in NextRecipient : delivered' = [delivered EXCEPT ![m.email] = @ + 1]
       \/ UNCHANGED delivered
    /\ sending' = {}
    /\ interrupted' = interrupted + 1
    /\ Return("canceled")
    /\ UNCHANGED <<clock, jobs, faults, subVars, settings, article, campaigns>>

IssueSent ==
    /\ runner.pc = "visit" /\ sending = {}
    /\ Return("ok")
    /\ UNCHANGED <<clock, jobs, faults, crashes, subVars, newsVars>>

(* createCampaign: the id comes back, or the call fails and the job is done.*)
CreateCampaign ==
    /\ runner.pc = "act"
    /\ \/ runner' = [runner EXCEPT !.pc = "write"] /\ UNCHANGED faults
       \/ faults < MaxFaults /\ faults' = faults + 1 /\ Return("ok")
    /\ UNCHANGED <<clock, jobs, crashes, subVars, newsVars>>

(* setCampaignRunning: a failure leaves a draft, or hides that it started.  *)
StartCampaign ==
    /\ runner.pc = "write"
    /\ \/ campaigns' = campaigns + 1 /\ UNCHANGED faults
       \/ faults < MaxFaults /\ faults' = faults + 1 /\ campaigns' \in {campaigns, campaigns + 1}
    /\ Return("ok")
    /\ UNCHANGED <<clock, jobs, crashes, subVars, settings, article, sending, delivered, interrupted>>

(* A shutdown during either call reschedules the job.                       *)
CampaignCanceled ==
    /\ runner.pc \in {"act", "write"} /\ crashes < MaxCrashes
    /\ crashes' = crashes + 1
    /\ campaigns' \in {campaigns, IF runner.pc = "write" THEN campaigns + 1 ELSE campaigns}
    /\ interrupted' = interrupted + 1
    /\ Return("canceled")
    /\ UNCHANGED <<clock, jobs, faults, subVars, settings, article, sending, delivered>>

-----------------------------------------------------------------------------
(* The worker; a shutdown lets the requests finish before the process ends. *)
RunStep ==
    /\ \/ GetDue \/ Claim
       \/ Book /\ (runner.outcome = "canceled" => \A r \in Requests : req[r] = Idle)
       \/ Restart
    /\ UNCHANGED <<subVars, newsVars>>

CrashProcess ==
    /\ Crash /\ RequestsDie
    /\ sending' = {}
    /\ interrupted' = IF \E i \in JobIds : jobs[i].kind = Issue /\ jobs[i].status = "running"
                      THEN interrupted + 1 ELSE interrupted
    /\ UNCHANGED <<settings, article, delivered, campaigns>>

PassTime == Tick /\ UNCHANGED <<subVars, newsVars>>

IssueStep ==
    \/ LoadIssue \/ LoadIssueFails
    \/ SendIssue \/ SendIssueFails \/ SendIssueCanceled \/ IssueSent
    \/ CreateCampaign \/ StartCampaign \/ CampaignCanceled

HandlerStep == SendConfirmation \/ ConfirmationFails \/ IssueStep

WebStep ==
    \/ \E r \in Requests : (SubscriberStep(r) \/ AdminListStep(r) \/ RequestFails(r)) /\ UNCHANGED newsVars
    \/ Destroy /\ UNCHANGED newsVars
    \/ UpdateNewsletterSetting \/ UpdateListmonk \/ RequestIssue \/ DestroyArticle

Next == WebStep \/ HandlerStep \/ RunStep \/ CrashProcess \/ PassTime

Spec == Init /\ [][Next]_vars

-----------------------------------------------------------------------------
(* Properties.                                                              *)

TypeOK ==
    /\ RunTypeOK /\ SubTypeOK
    /\ settings \in Settings
    /\ article \in (SUBSET Tags) \cup {Gone}
    /\ sending \subseteq [id : SubIds, email : Emails, leave : 0..MaxTokens]
    /\ delivered \in [Emails -> Nat]
    /\ campaigns \in Nat /\ interrupted \in Nat

(* "a single failure is logged and counted but never aborts the batch": an  *)
(* issue reaches an address once, by mail or campaign, plus at most once    *)
(* for every run of its job that a crash or a shutdown cut off, whatever    *)
(* fails, retries or changes provider in between.                           *)
IssueRepeatsOnlyAfterInterruption ==
    \A e \in Emails : delivered[e] + campaigns <= 1 + interrupted

(* "silently drop the remaining recipients": a done row means its last run  *)
(* visited every recipient it had listed.                                   *)
DoneIssueVisitedEveryone ==
    \A i \in JobIds : jobs[i].kind = Issue /\ jobs[i].status = "done" => sending = {}
=============================================================================
