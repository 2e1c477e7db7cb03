------------------------------ MODULE RoomTask ------------------------------
(***************************************************************************)
(* What every spawn_* of interconnect-daemon/src/room.rs has in common: a  *)
(* task that, once connected, loops over select! { conn.recv(), intents }. *)
(* An intent that is taken while recv() waits drops recv()'s future where  *)
(* it stands; what that costs depends on the connector, whose module       *)
(* extends this one.                                                       *)
(*                                                                         *)
(* The platform is the sequence of what was posted to it.  A message is    *)
(* its position there; the connector keeps a window of the most recent     *)
(* ones (`messages: VecDeque`) and every snapshot is the whole window.     *)
(***************************************************************************)
EXTENDS Naturals, Sequences, FiniteSets, SequencesExt

CONSTANTS
  Cap,          \* MAX_MESSAGES (50)
  HistoryLimit, \* how many messages connect() asks the platform for (50)
  MaxPosted,    \* bound: what is ever posted
  MaxQueued     \* bound: intents that wait at one time; their number has none

ASSUME RoomAssumption ==
  /\ Cap \in Nat \ {0}
  /\ HistoryLimit \in Nat /\ HistoryLimit <= Cap
  /\ MaxPosted \in Nat
  /\ MaxQueued \in Nat

VARIABLES
  task,      \* where the task stands
  queued,    \* intents on its channel
  posted,    \* the platform: "message", or "other" for what recv() skips
  window,    \* the connector's messages
  shown      \* messages that were in a snapshot sent to the daemon

taskVars == <<task, queued>>
feedVars == <<posted, window, shown>>

\* connecting: in connect(); receiving: at the select!; sending: in
\* send_intent(); ended: the loop broke, or connect() failed.
TaskStates == {"connecting", "receiving", "sending", "ended"}

Live == task \in {"receiving", "sending"}

RoomTypes ==
  /\ task \in TaskStates
  /\ queued \in Nat
  /\ posted \in Seq({"message", "other"})
  /\ window \in Seq(Nat)
  /\ Len(window) <= Cap
  /\ shown \in SUBSET Nat

Messages == {n \in DOMAIN posted : posted[n] = "message"}

\* The numbers of S, smallest first.
Sorted(S) ==
  CHOOSE s \in [1 .. Cardinality(S) -> S] : \A i, j \in DOMAIN s : i < j => s[i] < s[j]

\* The plain messages numbered m .. n, oldest first.
PlainFrom(m, n) == Sorted(Messages \cap m .. n)

\* No point in the platform's sequence.
None == MaxPosted + 1

Lower(a, b) == IF a < b THEN a ELSE b

\* The last k elements of s, and all but those.
Newest(s, k) == SubSeq(s, Len(s) + 1 - Lower(k, Len(s)), Len(s))
AllBut(s, k) == SubSeq(s, 1, Len(s) - Lower(k, Len(s)))

\* Mutant: push_front.
PushFront(w, n) == <<n>> \o (IF Len(w) >= Cap THEN Tail(w) ELSE w)

\* push_message: push_back, and pop_front when that makes too many.
PushOne(w, n) == IF Len(w) >= Cap THEN Append(Tail(w), n) ELSE Append(w, n)

\* push_message for each of ns in turn.
PushAll(w, ns) == Newest(w \o ns, Cap)

\* A snapshot of window w goes to the daemon; nothing is awaited between
\* recv()'s return and push_tx.send().
Show(w) ==
  /\ window' = w
  /\ shown' = shown \cup ToSet(w)

RoomInit ==
  /\ task = "connecting"
  /\ queued = 0
  /\ posted = <<>>
  /\ window = <<>>
  /\ shown = {}

\* Somebody posts to the platform.
Post(kind) ==
  /\ Len(posted) < MaxPosted
  /\ posted' = Append(posted, kind)
  /\ UNCHANGED <<taskVars, window, shown>>

\* connect() returned: the initial snapshot is sent and the task spawned.
Connected(w) ==
  /\ task = "connecting"
  /\ task' = "receiving"
  /\ Show(w)
  /\ UNCHANGED <<queued, posted>>

\* The daemon's `send` puts an intent on the channel.
SubmitIntent ==
  /\ Live
  /\ queued < MaxQueued
  /\ queued' = queued + 1
  /\ UNCHANGED <<task, feedVars>>

\* The intent wins the select!: it is sent, or discarded when it does not
\* deserialise.  Either way recv()'s future is gone.
TakeIntent ==
  /\ task = "receiving"
  /\ queued > 0
  /\ queued' = queued - 1
  /\ task' \in {"sending", "receiving"}
  /\ UNCHANGED feedVars

\* send_intent() returned; Ok or Err, the loop goes on.
SendReturns ==
  /\ task = "sending"
  /\ task' = "receiving"
  /\ UNCHANGED <<queued, feedVars>>

\* connect() failed, or recv() returned None or Err: no one receives any more
\* and the intents on the channel are dropped.
TaskEnds ==
  /\ task \in {"connecting", "receiving"}
  /\ task' = "ended"
  /\ queued' = 0
  /\ UNCHANGED feedVars

\* No more intents come in the end.  An intent that comes again and again may
\* drop every recv() before it is through; one that is ready when select! polls
\* it gets its turn, as select! starts with a branch at random.
IntentsStop == <>[](queued = 0)

\* The window is oldest first and has nothing twice.
StrictlyInOrder == \A i, j \in DOMAIN window : i < j => window[i] < window[j]

=============================================================================
