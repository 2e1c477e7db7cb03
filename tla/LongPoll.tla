------------------------------ MODULE LongPoll ------------------------------
(***************************************************************************)
(* What the Telegram, Zulip and Matrix connectors share: recv() asks the   *)
(* server for what comes after a position, waits as long as there is       *)
(* nothing, and handles the answer without awaiting anything else.  With   *)
(* the next request the position tells the server what it may forget.      *)
(*                                                                         *)
(* The daemon may be killed and started again: the connector's memory is   *)
(* gone and it connects anew; the server keeps what it was not told to     *)
(* forget.                                                                 *)
(***************************************************************************)
EXTENDS RoomTask

CONSTANTS
  AnswerLimit,   \* Telegram: the most updates an answer has (100)
  TimelineLimit, \* Matrix: the most events a sync has without a limit of its own
  MaxRestarts    \* bound: how often the daemon is killed

ASSUME LongPollAssumption ==
  /\ AnswerLimit \in Nat \ {0}
  /\ TimelineLimit \in Nat \ {0} /\ TimelineLimit <= Cap
  /\ MaxRestarts \in Nat

VARIABLES
  position,  \* the last update handled
  polling,   \* a request is under way
  forgotten, \* the server was told it may forget up to here
  restarts

pollVars == <<position, polling, forgotten, restarts>>

PollTypes ==
  /\ RoomTypes
  /\ position \in Nat
  /\ polling \in BOOLEAN
  /\ forgotten \in Nat
  /\ restarts \in Nat

PollInit ==
  /\ RoomInit
  /\ position = 0
  /\ polling = FALSE
  /\ forgotten = 0
  /\ restarts = 0

Higher(a, b) == IF a > b THEN a ELSE b

Request ==
  /\ task = "receiving"
  /\ ~polling
  /\ polling' = TRUE
  /\ forgotten' = Higher(forgotten, position)
  /\ UNCHANGED <<taskVars, feedVars, position, restarts>>

\* The answer has the updates up to k; the connector handles the plain
\* messages ns, and returns a snapshot if there are any.
Answer(k, ns) ==
  /\ task = "receiving"
  /\ polling
  /\ polling' = FALSE
  /\ position' = k
  /\ IF ns = <<>> THEN UNCHANGED <<window, shown>> ELSE Show(PushAll(window, ns))
  /\ UNCHANGED <<taskVars, posted, forgotten, restarts>>

\* The server has waited long enough and answers with nothing.
AnswerNothing ==
  /\ task = "receiving"
  /\ polling
  /\ Higher(position, forgotten) >= Len(posted)
  /\ polling' = FALSE
  /\ UNCHANGED <<taskVars, feedVars, position, forgotten, restarts>>

\* An intent drops the request, answered or not; the position stays.
Cancel ==
  /\ TakeIntent
  /\ polling' = FALSE
  /\ UNCHANGED <<position, forgotten, restarts>>

PollEnds == TaskEnds /\ polling' = FALSE /\ UNCHANGED <<position, forgotten, restarts>>

\* The daemon is killed and started again.
Restart ==
  /\ restarts < MaxRestarts
  /\ restarts' = restarts + 1
  /\ task' = "connecting"
  /\ queued' = 0
  /\ window' = <<>>
  /\ position' = 0
  /\ polling' = FALSE
  /\ UNCHANGED <<posted, shown, forgotten>>

Submit == SubmitIntent /\ UNCHANGED pollVars
SendDone == SendReturns /\ UNCHANGED pollVars

PollStep == (\E kind \in {"message", "other"} : Post(kind) /\ UNCHANGED pollVars)
              \/ Request \/ AnswerNothing \/ Submit \/ Cancel \/ PollEnds

=============================================================================
