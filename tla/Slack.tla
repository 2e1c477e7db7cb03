------------------------------- MODULE Slack --------------------------------
(***************************************************************************)
(* The Slack connector: Socket Mode socket first, history second, and a    *)
(* recv() that acknowledges an envelope, then asks Slack for the author's  *)
(* name, and only then adds the message to its window.                     *)
(*                                                                         *)
(* "other" stands for envelopes that are acknowledged and skipped: hello,  *)
(* subtypes, other channels.  Whether Slack delivers an unacknowledged     *)
(* envelope again is not modelled.                                         *)
(***************************************************************************)
EXTENDS RoomTask

VARIABLES
  openedAt,   \* messages posted before the socket, or None
  fetchedAt,  \* messages posted before the history, or None
  ws,         \* envelopes on the socket
  recv,       \* the await recv() stands at
  hand,       \* the message recv() works on, 0 for none
  acked,      \* envelopes acknowledged
  cancelled   \* messages recv() had in hand when an intent dropped it

slackVars == <<openedAt, fetchedAt, ws, recv, hand, acked, cancelled>>
vars == <<taskVars, feedVars, slackVars>>

Init ==
  /\ RoomInit
  /\ openedAt = None
  /\ fetchedAt = None
  /\ ws = <<>>
  /\ recv = "reading"
  /\ hand = 0
  /\ acked = {}
  /\ cancelled = {}

-----------------------------------------------------------------------------
\* Mutant: the socket is opened at the end of connect().
SlackPostAfterConnect(kind) ==
  /\ Post(kind)
  /\ ws' = IF Live THEN Append(ws, Len(posted) + 1) ELSE ws
  /\ UNCHANGED <<openedAt, fetchedAt, recv, hand, acked, cancelled>>

\* Slack delivers what is posted while the socket is open.
SlackPost(kind) ==
  /\ Post(kind)
  /\ ws' = IF openedAt # None /\ task # "ended" THEN Append(ws, Len(posted) + 1) ELSE ws
  /\ UNCHANGED <<openedAt, fetchedAt, recv, hand, acked, cancelled>>

OpenSocket ==
  /\ task = "connecting"
  /\ openedAt = None
  /\ openedAt' = Len(posted)
  /\ UNCHANGED <<taskVars, feedVars, fetchedAt, ws, recv, hand, acked, cancelled>>

\* conversations.history has answered.
FetchHistory ==
  /\ task = "connecting"
  /\ openedAt # None
  /\ fetchedAt = None
  /\ fetchedAt' = Len(posted)
  /\ UNCHANGED <<taskVars, feedVars, openedAt, ws, recv, hand, acked, cancelled>>

\* The last HistoryLimit posts; those with a subtype are skipped.  The authors'
\* names were looked up meanwhile, while the socket collects.
NameHistory ==
  /\ fetchedAt # None
  /\ Connected(PlainFrom(fetchedAt + 1 - Lower(HistoryLimit, fetchedAt), fetchedAt))
  /\ UNCHANGED slackVars

ReadEnvelope ==
  /\ task = "receiving"
  /\ recv = "reading"
  /\ ws # <<>>
  /\ hand' = Head(ws)
  /\ ws' = Tail(ws)
  /\ recv' = "acking"
  /\ UNCHANGED <<taskVars, feedVars, openedAt, fetchedAt, acked, cancelled>>

\* Mutant: what is not a message is taken up again instead of skipped.
AckedSkipsNothing ==
  /\ task = "receiving"
  /\ recv = "acking"
  /\ acked' = acked \cup {hand}
  /\ recv' = IF hand \in Messages THEN "naming" ELSE "acking"
  /\ UNCHANGED <<taskVars, feedVars, openedAt, fetchedAt, ws, hand, cancelled>>

\* ack() returned: on to the author's name, or to the next envelope.
Acked ==
  /\ task = "receiving"
  /\ recv = "acking"
  /\ acked' = acked \cup {hand}
  /\ IF hand \in Messages
       THEN recv' = "naming" /\ UNCHANGED hand
       ELSE recv' = "reading" /\ hand' = 0
  /\ UNCHANGED <<taskVars, feedVars, openedAt, fetchedAt, ws, cancelled>>

\* The name is there, or the user id stands in for it.
Named ==
  /\ task = "receiving"
  /\ recv = "naming"
  /\ Show(PushOne(window, hand))
  /\ recv' = "reading"
  /\ hand' = 0
  /\ UNCHANGED <<taskVars, posted, openedAt, fetchedAt, ws, acked, cancelled>>

\* Mutant: the next recv() starts with what the last one had in hand.
CancelKeepsHand ==
  /\ TakeIntent
  /\ acked' \in IF recv = "acking" THEN {acked, acked \cup {hand}} ELSE {acked}
  /\ cancelled' = cancelled \cup ({hand} \cap Messages)
  /\ recv' = "reading"
  /\ UNCHANGED <<openedAt, fetchedAt, ws, hand>>

\* recv() is dropped with what it has in hand; an ack under way may or may not
\* reach Slack.
Cancel ==
  /\ TakeIntent
  /\ acked' \in IF recv = "acking" THEN {acked, acked \cup {hand}} ELSE {acked}
  /\ cancelled' = cancelled \cup ({hand} \cap Messages)
  /\ recv' = "reading"
  /\ hand' = 0
  /\ UNCHANGED <<openedAt, fetchedAt, ws>>

\* connect() failed, the socket closed or failed, or an ack failed.
SlackEnds ==
  /\ TaskEnds
  /\ recv # "naming"
  /\ UNCHANGED slackVars

Next ==
  \/ \E kind \in {"message", "other"} : SlackPost(kind)
  \/ OpenSocket
  \/ FetchHistory
  \/ NameHistory
  \/ ReadEnvelope
  \/ Acked
  \/ Named
  \/ SubmitIntent /\ UNCHANGED slackVars
  \/ Cancel
  \/ SendReturns /\ UNCHANGED slackVars
  \/ SlackEnds

Spec == Init /\ [][Next]_vars

-----------------------------------------------------------------------------
\* Every variable has its type; recv() has an envelope in hand when it is past
\* reading one, and only then.
TypeOK ==
  /\ RoomTypes
  /\ (recv = "reading") <=> (hand = 0)
  /\ openedAt \in 0 .. None
  /\ fetchedAt \in 0 .. None
  /\ ws \in Seq(Nat)
  /\ recv \in {"reading", "acking", "naming"}
  /\ hand \in Nat
  /\ acked \in SUBSET Nat
  /\ cancelled \in SUBSET Nat

\* Messages the history was asked for no more, being too old.
TooOld == 1 .. fetchedAt - Lower(HistoryLimit, fetchedAt)

\* While the task lives, a message is shown, or still to come, or an intent
\* dropped it: nothing falls between the history and the socket, and nothing
\* but an intent loses a message.
NothingSlipsThrough ==
  Live => Messages \subseteq TooOld \cup shown \cup ToSet(ws) \cup {hand} \cup cancelled

\* The window is oldest first, save for what was posted while connect() ran,
\* which the history has and the socket delivers again.
InOrderAfterConnect ==
  \A i, j \in DOMAIN window :
    i < j => window[i] < window[j] \/ window[j] \in openedAt + 1 .. fetchedAt

=============================================================================
