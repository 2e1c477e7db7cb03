-------------------------------- MODULE Chat --------------------------------
(***************************************************************************)
(* examples/chat/src/server.rs: the room behind its WebSocket handlers.    *)
(* The intent, its message and the broadcast of the new snapshot are one   *)
(* section of the write lock, so snapshots are broadcast in order.         *)
(* A session's id, identity and name are its connection here; the `seq` of *)
(* a snapshot, which restarts with every connection, is read by nobody.    *)
(***************************************************************************)
EXTENDS Sessions

CONSTANTS
  Keep,  \* messages the room keeps (100)
  Recent \* messages a snapshot has (50)

VARIABLES
  said,      \* messages ever added; a message is its number
  messages,  \* the room's
  users      \* the sessions in the room's map

chatVars == <<said, messages, users>>
vars == <<sessionVars, chatVars>>

\* The last k elements of s.
LastOf(s, k) == IF Len(s) > k THEN SubSeq(s, Len(s) - k + 1, Len(s)) ELSE s

\* The list of users a snapshot also has is left out: no property reads it.
View(ms) == [messages |-> LastOf(ms, Recent)]

\* The newest message of snapshot m; 0 when there is none.
Latest(m) == IF m = Nothing \/ m.data.messages = <<>> THEN 0 ELSE Last(m.data.messages)

Init ==
  /\ SessionInit
  /\ said = 0
  /\ messages = <<>>
  /\ users = {}

-----------------------------------------------------------------------------
\* on_connect() or, with a passport, on_transfer_in(), which accepts everything.
Joins(c) ==
  /\ Connect(c)
  /\ users' = users \cup {c}
  /\ UNCHANGED <<said, messages>>

Greets(c) ==
  /\ SendManifest(c, "read", "announce")
  /\ UNCHANGED chatVars

AnnouncesJoin(c) ==
  /\ At(c, "announce")
  /\ Air(Message("system"))
  /\ Advance(c, "snapshot")
  /\ UNCHANGED <<writing, holds, inbox, outbox, clientVars, chatVars>>

Shows(c) ==
  /\ SendSnapshot(c, View(messages), "read")
  /\ UNCHANGED chatVars

\* add_message()
AddMessage(ms, n) == LastOf(Append(ms, n), Keep)

HandleIntent(c) ==
  /\ CanWrite
  /\ Takes(c, "intent")
  /\ said' = said + 1
  /\ messages' = AddMessage(messages, said + 1)
  /\ Air(Snapshot(View(messages')))
  /\ UNCHANGED <<handlerVars, outbox, clientVars, users>>

\* The passport of a valid destination, or an error.
HandleTransfer(c) ==
  /\ \E kind \in {"transfer", "error"} : Answer(c, "transfer", Message(kind), "read")
  /\ UNCHANGED chatVars

HandlePing(c) ==
  /\ Answer(c, "ping", Message("pong"), "none")
  /\ UNCHANGED chatVars

\* Mutant: the session stays in the map.
LeavesSilently(c) ==
  /\ At(c, "leaving")
  /\ CanWrite
  /\ Advance(c, "left")
  /\ UNCHANGED <<writing, holds, inbox, outbox, channelVars, clientVars, chatVars>>

\* on_disconnect()
Leaves(c) ==
  /\ At(c, "leaving")
  /\ CanWrite
  /\ Advance(c, "left")
  /\ users' = users \ {c}
  /\ UNCHANGED <<writing, holds, inbox, outbox, channelVars, clientVars, said, messages>>

AnnouncesLeave(c) ==
  /\ At(c, "left")
  /\ Air(Message("system"))
  /\ Advance(c, "gone")
  /\ UNCHANGED <<writing, holds, inbox, outbox, clientVars, chatVars>>

Requests == {"intent", "transfer", "ping"}

Next ==
  \E c \in Conns :
    \/ Shared(c) /\ UNCHANGED chatVars
    \/ Joins(c)
    \/ Greets(c)
    \/ AnnouncesJoin(c)
    \/ Shows(c)
    \/ HandleIntent(c)
    \/ HandleTransfer(c)
    \/ HandlePing(c)
    \/ Leaves(c)
    \/ AnnouncesLeave(c)
    \/ ClientReads(c) /\ UNCHANGED chatVars
    \/ \E r \in Requests : (ClientRequests(c, r) \/ ClientSent(c, r)) /\ UNCHANGED chatVars

Spec == Init /\ [][Next]_vars

-----------------------------------------------------------------------------
\* Every variable has its type; the room keeps the newest Keep messages.
TypeOK ==
  /\ SessionTypes
  /\ users \subseteq Conns
  /\ messages = [i \in 1 .. Len(messages) |-> said - Len(messages) + i]
  /\ Len(messages) <= Keep

\* The room's users are the sessions being served, and those whose handler
\* returned the error of a write: on_disconnect() is not called for them.
UsersAreServedOrAbandoned ==
  users = {c \in Conns : step[c] \notin {"away", "left", "gone"}}

=============================================================================
