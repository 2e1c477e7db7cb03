------------------------------ MODULE Discord -------------------------------
(***************************************************************************)
(* The Discord connector: the history comes over HTTP while connecting,    *)
(* the gateway session is opened by the first next_event() of the shard,   *)
(* later.  next_event() keeps its state in the shard, so dropping it loses *)
(* nothing.  "other" stands for events of other channels.                  *)
(***************************************************************************)
EXTENDS RoomTask

VARIABLES
  fetchedAt,  \* messages posted before the history, or None
  openedAt,   \* messages posted before the gateway session, or None
  events      \* events of the session that next_event() has not returned

discordVars == <<fetchedAt, openedAt, events>>
vars == <<taskVars, feedVars, discordVars>>

Init ==
  /\ RoomInit
  /\ fetchedAt = None
  /\ openedAt = None
  /\ events = <<>>

-----------------------------------------------------------------------------
DiscordPost(kind) ==
  /\ Post(kind)
  /\ events' = IF openedAt # None /\ task # "ended" THEN Append(events, Len(posted) + 1) ELSE events
  /\ UNCHANGED <<fetchedAt, openedAt>>

Connect ==
  /\ Connected(Newest(PlainFrom(1, Len(posted)), HistoryLimit))
  /\ fetchedAt' = Len(posted)
  /\ UNCHANGED <<openedAt, events>>

\* The shard, polled by recv(), has identified itself to the gateway.
OpenGateway ==
  /\ task = "receiving"
  /\ openedAt = None
  /\ openedAt' = Len(posted)
  /\ UNCHANGED <<taskVars, feedVars, fetchedAt, events>>

NextEvent ==
  /\ task = "receiving"
  /\ events # <<>>
  /\ events' = Tail(events)
  /\ IF Head(events) \in Messages
       THEN Show(PushOne(window, Head(events)))
       ELSE UNCHANGED <<window, shown>>
  /\ UNCHANGED <<taskVars, posted, fetchedAt, openedAt>>

Cancel == TakeIntent /\ UNCHANGED discordVars

Next ==
  \/ \E kind \in {"message", "other"} : DiscordPost(kind)
  \/ Connect
  \/ OpenGateway
  \/ NextEvent
  \/ Cancel
  \/ (SubmitIntent \/ SendReturns \/ TaskEnds) /\ UNCHANGED discordVars

Spec == Init /\ [][Next]_vars

-----------------------------------------------------------------------------
\* Every variable has its type; there are no events before the session.
TypeOK ==
  /\ RoomTypes
  /\ fetchedAt \in 0 .. None
  /\ openedAt \in 0 .. None
  /\ events \in Seq(Nat)
  /\ task = "connecting" => openedAt = None
  /\ openedAt = None => events = <<>>

\* Older than the history, which has the HistoryLimit most recent messages.
TooOld ==
  {n \in 1 .. fetchedAt : Cardinality(Messages \cap n + 1 .. fetchedAt) >= HistoryLimit}

\* While the task lives a message is shown, or about to be, or too old, or was
\* posted after the history and before the session; intents lose none.
NothingElseSlipsThrough ==
  Live => Messages \subseteq TooOld \cup shown \cup ToSet(events) \cup fetchedAt + 1 .. openedAt

=============================================================================
