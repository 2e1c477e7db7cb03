------------------------------ MODULE Streams -------------------------------
(***************************************************************************)
(* A room whose connector is handed what is posted over a connection it    *)
(* keeps open: Slack, Discord, IRC or Signal, as `connector` in            *)
(* interconnect.toml says; or WhatsApp, which would be told over another.  *)
(* The variables of the others stay as they are initially.                 *)
(***************************************************************************)
EXTENDS RoomTask

CONSTANTS
  Connectors,  \* the connectors a room may have
  MaxPings     \* bound: PINGs the IRC server sends

ASSUME ConnectorAssumption == Connectors \subseteq {"slack", "discord", "irc", "signal", "whatsapp"}

VARIABLES
  connector,
  openedAt, fetchedAt, ws, recv, hand, acked, cancelled,  \* Slack
  events,                                                 \* Discord
  joinedAt, pings, ponged, torn,                          \* IRC
  lines                                                   \* IRC and Signal

S == INSTANCE Slack
D == INSTANCE Discord
I == INSTANCE Irc
G == INSTANCE Signal
W == INSTANCE WhatsApp

slackOnly == <<ws, hand, acked, cancelled>>
ircOnly == <<joinedAt, pings, ponged, torn>>
inConnect == <<openedAt, fetchedAt>>
vars == <<taskVars, feedVars, connector, inConnect, recv, slackOnly, events, ircOnly, lines>>

\* spawn_room: the configuration names the connector.
Init ==
  /\ connector \in Connectors
  /\ S!Init
  /\ D!Init
  /\ I!Init

\* What the connectors leave alone.
NotSlack == <<events, ircOnly, lines>>
NotDiscord == <<recv, slackOnly, ircOnly, lines>>
NotIrc == <<inConnect, slackOnly, events>>
NotSignal == <<inConnect, recv, slackOnly, events, ircOnly>>

Next ==
  /\ UNCHANGED connector
  /\ \/ connector = "slack" /\ S!Next /\ UNCHANGED NotSlack
     \/ connector = "discord" /\ D!Next /\ UNCHANGED NotDiscord
     \/ connector = "irc" /\ I!Next /\ UNCHANGED NotIrc
     \/ connector = "signal" /\ G!Next /\ UNCHANGED NotSignal
     \/ connector = "whatsapp" /\ W!Next /\ UNCHANGED <<NotSignal, lines>>

Spec == Init /\ [][Next]_vars

-----------------------------------------------------------------------------
\* Every variable has its type; recv() has an envelope in hand, or a session,
\* or a PONG to write, only where its connector may.
TypeOK ==
  /\ connector = "slack" => S!TypeOK
  /\ connector = "discord" => D!TypeOK
  /\ connector = "irc" => I!TypeOK
  /\ connector = "signal" => G!TypeOK
  /\ connector = "whatsapp" => W!TypeOK

\* What was posted is shown or on its way, and what is lost is lost where it may
\* be: on Slack what recv() had in hand when an intent came, on Discord what was
\* posted between the history and the session.  No line of the IRC stream or of
\* signal-cli's is lost to an intent.
StreamsLoseOnlyWhatTheyMay ==
  /\ connector = "slack" => S!NothingSlipsThrough
  /\ connector = "discord" => D!NothingElseSlipsThrough
  /\ connector = "irc" => I!NothingSlipsThrough
  /\ connector = "signal" => G!NothingSlipsThrough

\* Each PING is answered once, or its PONG was cut off by an intent.
PingsAreAccountedFor == connector = "irc" => I!PingsAreAccountedFor

\* Whatever intents drop, the window is in order and has nothing twice, save for
\* what Slack's connect() got both from the history and from the socket.
StreamsShowInOrder ==
  IF connector = "slack" THEN S!InOrderAfterConnect ELSE StrictlyInOrder

-----------------------------------------------------------------------------
Is(c, A) == connector = c /\ UNCHANGED connector /\ A

(* The runtime polls a task that can run; select! tries what is there as    *)
(* often as an intent, as it starts with a branch at random; the platform   *)
(* answers the requests and takes the writes.                              *)
FairSpec ==
  /\ Spec
  /\ SF_vars(Is("slack", S!ReadEnvelope) /\ UNCHANGED NotSlack)
  /\ WF_vars(Is("slack", S!Acked \/ S!Named) /\ UNCHANGED NotSlack)
  /\ SF_vars(Is("discord", D!NextEvent) /\ UNCHANGED NotDiscord)
  /\ SF_vars(Is("irc", I!ReadLine) /\ UNCHANGED NotIrc)
  /\ WF_vars(Is("irc", I!Pong) /\ UNCHANGED NotIrc)
  /\ SF_vars(Is("signal", G!ReadLine) /\ UNCHANGED NotSignal)
  /\ SF_vars(Is("whatsapp", W!RecvReturnsNone) /\ UNCHANGED <<NotSignal, lines>>)
  /\ WF_vars(SendReturns /\ UNCHANGED <<connector, NotSignal, lines>>)

\* What has arrived and recv() is not through with.
Arrived ==
  CASE connector = "slack" -> ToSet(ws) \cup ({hand} \ {0})
    [] connector = "discord" -> ToSet(events)
    [] connector = "irc" -> ToSet(lines) \cup (IF recv = "ponging" THEN {I!Ping} ELSE {})
    [] connector = "signal" -> ToSet(lines)
    [] connector = "whatsapp" -> Messages

\* What arrives is dealt with, PINGs too, unless the task ends, however many
\* intents there are.  A room of WhatsApp does not wait for its messages: its
\* task ends.
ArrivalsAreHandled ==
  \A n \in 0 .. MaxPosted : (Live /\ n \in Arrived) ~> (~Live \/ n \notin Arrived)

=============================================================================
