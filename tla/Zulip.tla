------------------------------- MODULE Zulip --------------------------------
(***************************************************************************)
(* The Zulip connector: an event queue is registered first, the history    *)
(* fetched second.  `position` is last_event_id, counted as in the         *)
(* platform's sequence; the server drops an event when a later             *)
(* last_event_id comes with a request.  Of the matching messages of one    *)
(* answer recv() keeps the last.  "other" stands for what does not match   *)
(* stream and topic.                                                       *)
(***************************************************************************)
EXTENDS LongPoll

VARIABLES
  registered,   \* messages posted before the queue, or None
  fetchedAt,    \* messages posted before the history
  overwritten   \* messages of an answer that a later one of it replaced

zulipVars == <<registered, fetchedAt, overwritten>>
vars == <<taskVars, feedVars, pollVars, zulipVars>>

Init ==
  /\ PollInit
  /\ registered = None
  /\ fetchedAt = 0
  /\ overwritten = {}

-----------------------------------------------------------------------------
\* register_event_queue: a queue of events from now on.
Register ==
  /\ task = "connecting"
  /\ registered = None
  /\ registered' = Len(posted)
  /\ UNCHANGED <<taskVars, feedVars, pollVars, fetchedAt, overwritten>>

\* The most recent messages that match the narrow, up to n.
History(n) == Newest(PlainFrom(1, n), HistoryLimit)

\* Mutant: the history first, the queue second.
FetchHistoryFirst ==
  /\ registered # None
  /\ Connected(History(registered))
  /\ position' = Len(posted)
  /\ fetchedAt' = registered
  /\ UNCHANGED <<polling, forgotten, restarts, registered, overwritten>>

FetchHistory ==
  /\ registered # None
  /\ Connected(History(Len(posted)))
  /\ position' = registered
  /\ fetchedAt' = Len(posted)
  /\ UNCHANGED <<polling, forgotten, restarts, registered, overwritten>>

\* recv() got events: last_event_id moves past all, the last message is pushed.
GetEvents ==
  \E k \in position + 1 .. Len(posted) :
    LET ns == PlainFrom(position + 1, k) IN
    /\ Answer(k, Newest(ns, 1))
    /\ overwritten' = overwritten \cup ToSet(AllBut(ns, 1))
    /\ UNCHANGED <<registered, fetchedAt>>

ZulipRestart == Restart /\ registered' = None /\ UNCHANGED <<fetchedAt, overwritten>>

Next ==
  \/ PollStep /\ UNCHANGED zulipVars
  \/ Register
  \/ FetchHistory
  \/ GetEvents
  \/ SendDone /\ UNCHANGED zulipVars
  \/ ZulipRestart

Spec == Init /\ [][Next]_vars

-----------------------------------------------------------------------------
TypeOK ==
  /\ PollTypes
  /\ registered \in 0 .. None
  /\ fetchedAt \in Nat
  /\ overwritten \in SUBSET Nat
  /\ task = "receiving" \/ ~polling
  /\ Live => registered <= fetchedAt

\* Messages from before the queue that HistoryLimit newer ones hide.
TooOld ==
  {n \in 1 .. registered : Cardinality(Messages \cap n + 1 .. fetchedAt) >= HistoryLimit}

\* Whatever intents cancel and whenever the daemon is killed, a message the
\* connector is past is shown, too old for the history, or overwritten by a
\* later one of its answer.  Nothing falls between history and queue.
NothingSlipsThrough ==
  Live => Messages \cap 1 .. Higher(position, forgotten) \subseteq TooOld \cup shown \cup overwritten

\* The window is oldest first, save for what was posted while connect() ran,
\* which the history has and the queue delivers again.
InOrderAfterConnect ==
  \A i, j \in DOMAIN window :
    i < j => window[i] < window[j] \/ window[j] \in registered + 1 .. fetchedAt

=============================================================================
