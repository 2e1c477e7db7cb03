------------------------------- MODULE Signal -------------------------------
(***************************************************************************)
(* The Signal connector: no history, and one pipe from signal-cli, which   *)
(* gets from its server all that was posted and not fetched before.        *)
(*                                                                         *)
(* "message" is an envelope of the conversation, with a text or without    *)
(* (a receipt gets into the window as an empty message); "other" is a line *)
(* that recv() skips.  So are the answers to our own requests, which are   *)
(* left out.                                                               *)
(***************************************************************************)
EXTENDS RoomTask

VARIABLE lines  \* on signal-cli's stdout, or on their way there

vars == <<taskVars, feedVars, lines>>

Init ==
  /\ RoomInit
  /\ lines = <<>>

-----------------------------------------------------------------------------
SignalPost(kind) ==
  /\ Post(kind)
  /\ lines' = IF task = "ended" THEN lines ELSE Append(lines, Len(posted) + 1)

\* connect(): signal-cli is spawned.
Spawn ==
  /\ Connected(<<>>)
  /\ UNCHANGED lines

ReadLine ==
  /\ task = "receiving"
  /\ lines # <<>>
  /\ lines' = Tail(lines)
  /\ IF Head(lines) \in Messages
       THEN Show(PushOne(window, Head(lines)))
       ELSE UNCHANGED <<window, shown>>
  /\ UNCHANGED <<taskVars, posted>>

\* next_line() keeps what it read.
Cancel == TakeIntent /\ UNCHANGED lines

Next ==
  \/ \E kind \in {"message", "other"} : SignalPost(kind)
  \/ Spawn
  \/ ReadLine
  \/ Cancel
  \/ (SubmitIntent \/ SendReturns \/ TaskEnds) /\ UNCHANGED lines

Spec == Init /\ [][Next]_vars

-----------------------------------------------------------------------------
\* Every variable has its type.
TypeOK ==
  /\ RoomTypes
  /\ lines \in Seq(Nat)

\* While the task lives every message is shown or on the pipe; intents lose none.
NothingSlipsThrough == Live => Messages \subseteq shown \cup ToSet(lines)

=============================================================================
