------------------------------- MODULE Matrix -------------------------------
(***************************************************************************)
(* The Matrix connector: one sync gives the history and the token to go on *)
(* from, later ones what came since, and a message is sent with a          *)
(* transaction id.  The homeserver takes an id it has seen with the same   *)
(* access token for a retry: it answers with the event it has and posts    *)
(* nothing.  A sync without a limit in its filter gives the most recent    *)
(* TimelineLimit events only.  "other" stands for events that are not      *)
(* m.text.                                                                 *)
(***************************************************************************)
EXTENDS LongPoll

CONSTANT MaxTxns  \* bound: messages sent over one connection

VARIABLES
  connectedAt,  \* posted before the first sync
  unseen,       \* messages a sync left out, being more than TimelineLimit ago
  txnCounter,
  inFlight,     \* transaction id of the PUT under way, or NoTxn
  usedTxns,     \* ids the homeserver has seen
  swallowed     \* PUTs it took for retries of other messages

sendVars == <<txnCounter, inFlight, usedTxns, swallowed>>
matrixVars == <<connectedAt, unseen, sendVars>>
vars == <<taskVars, feedVars, pollVars, matrixVars>>

NoTxn == MaxTxns

Init ==
  /\ PollInit
  /\ connectedAt = 0
  /\ unseen = {}
  /\ txnCounter = 0
  /\ inFlight = NoTxn
  /\ usedTxns = {}
  /\ swallowed = 0

-----------------------------------------------------------------------------
\* Mutant: the first sync's next_batch is not kept.
ConnectForgetsToken ==
  LET n == Len(posted) IN
  /\ Connected(PlainFrom(n + 1 - Lower(HistoryLimit, n), n))
  /\ position' = 0
  /\ connectedAt' = n
  /\ txnCounter' = 0
  /\ UNCHANGED <<polling, forgotten, restarts, unseen, inFlight, usedTxns, swallowed>>

\* connect(): history and next_batch from one sync; ids start at 0.
Connect ==
  LET n == Len(posted) IN
  /\ Connected(PlainFrom(n + 1 - Lower(HistoryLimit, n), n))
  /\ position' = n
  /\ connectedAt' = n
  /\ txnCounter' = 0
  /\ UNCHANGED <<polling, forgotten, restarts, unseen, inFlight, usedTxns, swallowed>>

\* sync_once: the token is stored after everything was parsed.
Sync ==
  \E k \in position + 1 .. Len(posted) :
    LET first == Higher(position + 1, k + 1 - Lower(k, TimelineLimit)) IN
    /\ Answer(k, PlainFrom(first, k))
    /\ unseen' = unseen \cup (Messages \cap position + 1 .. first - 1)
    /\ UNCHANGED <<connectedAt, sendVars>>

\* An intent that deserialises takes the next id.
MatrixTake ==
  /\ Cancel
  /\ IF task' = "sending"
       THEN txnCounter < MaxTxns /\ inFlight' = txnCounter /\ txnCounter' = txnCounter + 1
       ELSE UNCHANGED <<inFlight, txnCounter>>
  /\ UNCHANGED <<connectedAt, unseen, usedTxns, swallowed>>

\* The PUT reaches the homeserver.
PutArrives ==
  /\ task = "sending"
  /\ inFlight # NoTxn
  /\ IF inFlight \in usedTxns
       THEN swallowed' = swallowed + 1 /\ UNCHANGED posted
       ELSE Len(posted) < MaxPosted /\ posted' = Append(posted, "message") /\ UNCHANGED swallowed
  /\ usedTxns' = usedTxns \cup {inFlight}
  /\ inFlight' = NoTxn
  /\ UNCHANGED <<taskVars, window, shown, pollVars, connectedAt, unseen, txnCounter>>

\* send() got its answer, or an error before or after the PUT arrived.
MatrixSent ==
  /\ SendDone
  /\ inFlight' = NoTxn
  /\ UNCHANGED <<connectedAt, unseen, txnCounter, usedTxns, swallowed>>

MatrixRestart ==
  /\ Restart
  /\ inFlight' = NoTxn
  /\ UNCHANGED <<connectedAt, unseen, txnCounter, usedTxns, swallowed>>

Next ==
  \/ \E kind \in {"message", "other"} : Post(kind) /\ UNCHANGED <<pollVars, matrixVars>>
  \/ (Request \/ AnswerNothing \/ Submit \/ PollEnds) /\ UNCHANGED matrixVars
  \/ Connect
  \/ Sync
  \/ MatrixTake
  \/ PutArrives
  \/ MatrixSent
  \/ MatrixRestart

Spec == Init /\ [][Next]_vars

-----------------------------------------------------------------------------
TypeOK ==
  /\ PollTypes
  /\ connectedAt \in Nat
  /\ unseen \in SUBSET Nat
  /\ txnCounter \in Nat
  /\ inFlight \in 0 .. NoTxn
  /\ usedTxns \in SUBSET Nat
  /\ swallowed \in Nat
  /\ task = "receiving" \/ ~polling

\* Whatever intents cancel and whenever the daemon is killed, a message the
\* token is past is shown, too old for the history, or left out by a sync.
NothingSlipsThrough ==
  Live => Messages \cap 1 .. position
            \subseteq 1 .. connectedAt - Lower(HistoryLimit, connectedAt) \cup shown \cup unseen

\* Sends are taken for retries only after a restart.
OneConnectionSwallowsNothing == restarts = 0 => swallowed = 0

=============================================================================
