------------------------------ MODULE Maillist ------------------------------
(***************************************************************************)
(* The mailing list connector: the newest 50 campaigns of a Listmonk list, *)
(* which are shown again when there are more than before.                  *)
(*                                                                         *)
(* send() creates a campaign and then starts it.  One that fails in        *)
(* between leaves a draft, which nothing starts and the list does not      *)
(* have; a campaign is listed once Listmonk is through with it.            *)
(***************************************************************************)
EXTENDS Listing

CONSTANT MaxTxns   \* bound: intents that are sent

VARIABLES
  sending,  \* where send() stands
  drafts,   \* campaigns of ours that are created and not started
  running,  \* campaigns of ours that are started and not through
  \* history
  taken,    \* intents that send() was called for
  listed,   \* campaigns of ours that got through
  failures  \* send()s that ended with an error

campaignVars == <<sending, drafts, running, taken, listed, failures>>

\* posting: the first request is under way; created: it has arrived; starting:
\* its answer came and the second is under way; started: that has arrived.
SendStates == {"idle", "posting", "created", "starting", "started"}

MailInit ==
  /\ ListInit
  /\ sending = "idle"
  /\ drafts = 0 /\ running = 0
  /\ taken = 0 /\ listed = 0 /\ failures = 0

-----------------------------------------------------------------------------
Connect == ListConnected(NewestPage(rows)) /\ UNCHANGED campaignVars

Fetch ==
  /\ LET page == NewestPage(rows) IN Fetched(page, Count(page) > Count(sawRows))
  /\ UNCHANGED campaignVars

\* An intent that deserialises is sent.
MailTake ==
  /\ Cancel
  /\ IF task' = "sending"
       THEN taken < MaxTxns /\ sending' = "posting" /\ taken' = taken + 1
       ELSE UNCHANGED <<sending, taken>>
  /\ UNCHANGED <<drafts, running, listed, failures>>

Proceeds(from, to) ==
  /\ sending = from
  /\ sending' = to
  /\ UNCHANGED <<taskVars, feedVars, listVars, taken, listed, failures>>

\* POST /api/campaigns
CreateArrives ==
  /\ Proceeds("posting", "created")
  /\ drafts' = drafts + 1
  /\ UNCHANGED running

CreateAnswered == Proceeds("created", "starting") /\ UNCHANGED <<drafts, running>>

\* PUT /api/campaigns/<id>/status
StartArrives ==
  /\ Proceeds("starting", "started")
  /\ drafts' = drafts - 1
  /\ running' = running + 1

\* Mutant: an error of the second request has the first one repeated.
MailSentRetries ==
  /\ task = "sending"
  /\ sending' \in IF sending = "starting" THEN {"posting", "idle"} ELSE {"idle"}
  /\ task' = IF sending' = "idle" THEN "receiving" ELSE "sending"
  /\ failures' = failures + 1
  /\ UNCHANGED <<queued, feedVars, listVars, drafts, running, taken, listed>>

\* The answer to the second request, or an error of either, before or after
\* the request arrived; the room's task takes no notice.
MailSent ==
  /\ SendReturns
  /\ sending' = "idle"
  /\ failures' \in IF sending = "started" THEN {failures, failures + 1} ELSE {failures + 1}
  /\ UNCHANGED <<listVars, drafts, running, taken, listed>>

\* Listmonk has sent a campaign of ours to everyone.
CampaignSent ==
  /\ running > 0
  /\ Add
  /\ running' = running - 1
  /\ listed' = listed + 1
  /\ UNCHANGED <<sending, drafts, taken, failures>>

Next ==
  \/ Add /\ UNCHANGED campaignVars
  \/ \E i \in 1 .. MaxPosted : (Withdraw(i) \/ Edit(i)) /\ UNCHANGED campaignVars
  \/ Wake /\ UNCHANGED campaignVars
  \/ (SubmitIntent \/ TaskEnds) /\ UNCHANGED <<listVars, campaignVars>>
  \/ Connect
  \/ Fetch
  \/ MailTake
  \/ CreateArrives
  \/ CreateAnswered
  \/ StartArrives
  \/ MailSent
  \/ CampaignSent

Spec == MailInit /\ [][Next]_<<vars, campaignVars>>

-----------------------------------------------------------------------------
\* Every variable has its type; requests are under way only inside send_intent().
MailTypeOK ==
  /\ TypeOK
  /\ sending \in SendStates
  /\ {drafts, running, taken, listed, failures} \subseteq Nat
  /\ task = "sending" <=> sending # "idle"

\* When campaigns are only added, as many as before are the same as before,
\* unless the page is full: then no new one is ever shown.
GrowthIsNeverHidden ==
  (Live /\ onlyInserts /\ Count(NewestPage(rows)) <= Count(sawRows)) => SawAll

\* An intent makes one campaign at most; a campaign stays a draft only if its
\* send() failed or is not through.
SendsAreAccountedFor ==
  /\ drafts + running + listed <= taken
  /\ drafts <= failures + (IF sending \in {"created", "starting"} THEN 1 ELSE 0)

=============================================================================
