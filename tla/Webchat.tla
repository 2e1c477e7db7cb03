------------------------------ MODULE Webchat -------------------------------
(***************************************************************************)
(* examples/webchat/src/main.rs.  Nobody is registered; the room's lock is *)
(* let go before a snapshot is written, and a message is added in one      *)
(* section of it and broadcast in a later one.                             *)
(***************************************************************************)
EXTENDS Sessions

CONSTANT Keep  \* messages the room keeps, and a snapshot has (100)

VARIABLES
  said,      \* messages ever added; a message is its number
  messages   \* the room's

webchatVars == <<said, messages>>
vars == <<sessionVars, webchatVars>>

\* The newest message of snapshot m; 0 when there is none.
Latest(m) == IF m = Nothing \/ m.data.messages = <<>> THEN 0 ELSE Last(m.data.messages)

View(ms) == [messages |-> ms]

Init ==
  /\ SessionInit
  /\ said = 0
  /\ messages = <<>>

-----------------------------------------------------------------------------
Joins(c) ==
  /\ Connect(c)
  /\ UNCHANGED webchatVars

Greets(c) ==
  /\ SendManifest(c, "none", "snapshot")
  /\ UNCHANGED webchatVars

Shows(c) ==
  /\ SendSnapshot(c, View(messages), "none")
  /\ UNCHANGED webchatVars

\* add_message(), in a section of its own.
AddMessage(c) ==
  /\ Takes(c, "intent")
  /\ said' = said + 1
  /\ messages' = IF Len(messages) = Keep
                   THEN Append(Tail(messages), said + 1)
                   ELSE Append(messages, said + 1)
  /\ Advance(c, "posted")
  /\ UNCHANGED <<writing, holds, outbox, channelVars, clientVars>>

\* broadcast_snapshot(), in the next; the guard is kept until it is sent.
BroadcastSnapshot(c) ==
  /\ At(c, "posted")
  /\ Air(Snapshot(View(messages)))
  /\ Advance(c, "loop")
  /\ UNCHANGED <<writing, holds, inbox, outbox, clientVars, webchatVars>>

HandlePing(c) ==
  /\ Answer(c, "ping", Message("pong"), "none")
  /\ UNCHANGED webchatVars

Leaves(c) ==
  /\ At(c, "leaving")
  /\ Advance(c, "gone")
  /\ UNCHANGED <<writing, holds, inbox, outbox, channelVars, clientVars, webchatVars>>

Requests == {"intent", "ping"}

Next ==
  \E c \in Conns :
    \/ Shared(c) /\ UNCHANGED webchatVars
    \/ Joins(c)
    \/ Greets(c)
    \/ Shows(c)
    \/ AddMessage(c)
    \/ BroadcastSnapshot(c)
    \/ HandlePing(c)
    \/ Leaves(c)
    \/ ClientReads(c) /\ UNCHANGED webchatVars
    \/ \E r \in Requests : (ClientRequests(c, r) \/ ClientSent(c, r)) /\ UNCHANGED webchatVars

Spec == Init /\ [][Next]_vars

-----------------------------------------------------------------------------
\* Every variable has its type; the room keeps the newest Keep messages.
TypeOK ==
  /\ SessionTypes
  /\ messages = [i \in 1 .. Len(messages) |-> said - Len(messages) + i]
  /\ Len(messages) <= Keep

=============================================================================
