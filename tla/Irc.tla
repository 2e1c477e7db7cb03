-------------------------------- MODULE Irc ---------------------------------
(***************************************************************************)
(* The IRC connector: no history, one TCP stream of lines, and a PING that *)
(* recv() answers itself.  "other" stands for every line but PRIVMSGs to   *)
(* the channel and PINGs.                                                  *)
(***************************************************************************)
EXTENDS RoomTask

CONSTANT MaxPings  \* bound: PINGs the server sends

VARIABLES
  joinedAt,  \* messages posted before the server took the JOIN, or None
  lines,     \* lines on the stream: a message's number, or Ping
  recv,      \* the await recv() stands at
  pings,     \* PINGs sent
  ponged,    \* PONGs written
  torn       \* PONGs an intent cut off

ircVars == <<joinedAt, lines, recv, pings, ponged, torn>>
vars == <<taskVars, feedVars, ircVars>>

Ping == 0

Init ==
  /\ RoomInit
  /\ joinedAt = None
  /\ lines = <<>>
  /\ recv = "reading"
  /\ pings = 0
  /\ ponged = 0
  /\ torn = 0

-----------------------------------------------------------------------------
IrcPost(kind) ==
  /\ Post(kind)
  /\ lines' = IF Live /\ joinedAt # None THEN Append(lines, Len(posted) + 1) ELSE lines
  /\ UNCHANGED <<joinedAt, recv, pings, ponged, torn>>

\* connect(): registered, and JOIN written.  A PING of the registration is
\* answered there, where nothing can cut it off.
Join ==
  /\ Connected(<<>>)
  /\ UNCHANGED ircVars

\* The server takes the JOIN: from now on it relays what is posted.
Joined ==
  /\ Live
  /\ joinedAt = None
  /\ joinedAt' = Len(posted)
  /\ UNCHANGED <<taskVars, feedVars, lines, recv, pings, ponged, torn>>

ServerPings ==
  /\ Live
  /\ pings < MaxPings
  /\ pings' = pings + 1
  /\ lines' = Append(lines, Ping)
  /\ UNCHANGED <<taskVars, feedVars, joinedAt, recv, ponged, torn>>

\* Mutant: a PING is skipped like any other command.
ReadLineIgnoresPing ==
  /\ task = "receiving"
  /\ recv = "reading"
  /\ lines # <<>>
  /\ lines' = Tail(lines)
  /\ IF Head(lines) \in Messages
       THEN Show(PushOne(window, Head(lines)))
       ELSE UNCHANGED <<window, shown>>
  /\ UNCHANGED <<taskVars, posted, joinedAt, recv, pings, ponged, torn>>

ReadLine ==
  /\ task = "receiving"
  /\ recv = "reading"
  /\ lines # <<>>
  /\ lines' = Tail(lines)
  /\ recv' = IF Head(lines) = Ping THEN "ponging" ELSE "reading"
  /\ IF Head(lines) \in Messages
       THEN Show(PushOne(window, Head(lines)))
       ELSE UNCHANGED <<window, shown>>
  /\ UNCHANGED <<taskVars, posted, joinedAt, pings, ponged, torn>>

Pong ==
  /\ task = "receiving"
  /\ recv = "ponging"
  /\ ponged' = ponged + 1
  /\ recv' = "reading"
  /\ UNCHANGED <<taskVars, feedVars, joinedAt, lines, pings, torn>>

\* next_line() keeps what it read; write_all() does not know how far it came.
Cancel ==
  /\ TakeIntent
  /\ torn' = IF recv = "ponging" THEN torn + 1 ELSE torn
  /\ recv' = "reading"
  /\ UNCHANGED <<joinedAt, lines, pings, ponged>>

Next ==
  \/ \E kind \in {"message", "other"} : IrcPost(kind)
  \/ Join
  \/ Joined
  \/ ServerPings
  \/ ReadLine
  \/ Pong
  \/ Cancel
  \/ (SubmitIntent \/ SendReturns \/ TaskEnds) /\ UNCHANGED ircVars

Spec == Init /\ [][Next]_vars

-----------------------------------------------------------------------------
\* Every variable has its type; recv() writes a PONG only inside the select!.
TypeOK ==
  /\ RoomTypes
  /\ joinedAt \in 0 .. None
  /\ lines \in Seq(Nat)
  /\ recv \in {"reading", "ponging"}
  /\ pings \in Nat /\ ponged \in Nat /\ torn \in Nat
  /\ recv = "ponging" => task \in {"receiving", "ended"}

\* While the task lives, what was posted since the JOIN took effect is shown or on the
\* stream; intents lose none.
NothingSlipsThrough ==
  Live => Messages \cap joinedAt + 1 .. Len(posted) \subseteq shown \cup ToSet(lines)

\* Each PING is on the stream, being answered, answered once, or was cut off.
PingsAreAccountedFor ==
  Live => pings = ponged + torn + Cardinality({i \in DOMAIN lines : lines[i] = Ping})
                    + (IF recv = "ponging" THEN 1 ELSE 0)

=============================================================================
