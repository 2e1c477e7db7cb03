------------------------------ MODULE Sessions ------------------------------
(***************************************************************************)
(* What the servers of examples/chat, examples/webchat and                 *)
(* examples/process have in common: a WebSocket handler per connection     *)
(* that authenticates, sends the manifest and a snapshot, subscribes to    *)
(* the broadcast channel and loops over select! { socket, channel }; and   *)
(* interconnect-client's Connection at the other end.  The room behind it  *)
(* is in the module that extends this one.                                 *)
(*                                                                         *)
(* A handler may keep a guard of the room's lock while it writes to its    *)
(* socket, and a write waits while the client does not read.               *)
(***************************************************************************)
EXTENDS Naturals, Sequences, FiniteSets, SequencesExt

CONSTANTS
  Conns,        \* connections; each is made once
  MaxConns,     \* bound: connections made
  Capacity,     \* of the broadcast channel (100 for chat, 256 for the others)
  Buffer,       \* bound: messages a socket holds in one direction
  MaxRequests   \* bound: requests all clients send

ASSUME SessionAssumption ==
  /\ Capacity \in Nat \ {0}
  /\ Buffer \in Nat \ {0}
  /\ MaxConns \in Nat
  /\ MaxRequests \in Nat

VARIABLES
  step,       \* per connection: where its handler stands
  writing,    \* the message its sink.send() is waiting to write, or Nothing
  holds,      \* the guard it keeps meanwhile
  inbox,      \* what the client wrote and the handler has not read
  outbox,     \* what the handler wrote and the client has not read
  aired,      \* the broadcasts the channel keeps, oldest first
  behind,     \* per connection: broadcasts its receiver has not received; more
              \* than Capacity counts as Capacity + 1
  since,      \* how many of aired were broadcast since it subscribed
  client,     \* where the client stands
  heard,      \* the last snapshot it read, or Nothing
  requested   \* requests so far

handlerVars == <<step, writing, holds>>
channelVars == <<aired, behind, since>>
clientVars == <<client, heard, requested>>
sessionVars == <<handlerVars, inbox, outbox, channelVars, clientVars>>

\* posted: webchat has added a message and not broadcast it yet; leaving: out
\* of the loop; left: on_disconnect() was called; gone: returned; failed: returned
\* the error of a write, from wherever it was.
Steps == {"away", "manifest", "announce", "snapshot", "subscribe",
          "loop", "posted", "leaving", "left", "gone", "failed"}

\* manifest, initial: Connection::connect() waits for it; sending: send_intent()
\* waits; closed: the process, or its socket, is no more; refused: connect()
\* returned an error.
ClientSteps == {"none", "manifest", "initial", "ready", "sending", "closed", "refused"}

Message(kind) == [kind |-> kind]
Snapshot(s) == [kind |-> "snapshot", data |-> s]
Nothing == Message("nothing")

SessionTypes ==
  /\ step \in [Conns -> Steps]
  /\ holds \in [Conns -> {"none", "read", "write"}]
  /\ client \in [Conns -> ClientSteps]
  /\ \A c \in Conns :
       /\ writing[c] = Nothing => holds[c] = "none"
       /\ Len(inbox[c]) <= Buffer /\ Len(outbox[c]) <= Buffer
       /\ behind[c] \in 0 .. Capacity + 1 /\ since[c] \in 0 .. Len(aired)
       /\ behind[c] > since[c] => since[c] = Capacity
  /\ Len(aired) <= Capacity
  /\ requested \in 0 .. MaxRequests

SessionInit ==
  /\ step = [c \in Conns |-> "away"]
  /\ writing = [c \in Conns |-> Nothing]
  /\ holds = [c \in Conns |-> "none"]
  /\ inbox = [c \in Conns |-> <<>>]
  /\ outbox = [c \in Conns |-> <<>>]
  /\ aired = <<>>
  /\ behind = [c \in Conns |-> 0]
  /\ since = [c \in Conns |-> 0]
  /\ client = [c \in Conns |-> "none"]
  /\ heard = [c \in Conns |-> Nothing]
  /\ requested = 0

-----------------------------------------------------------------------------
Gone(c) == client[c] \in {"closed", "refused"}

\* Its handler is in the loop and has a receiver.
Receives(c) == step[c] \in {"loop", "posted"}

Subscribed(c) == Receives(c) /\ ~Gone(c)

Lower(a, b) == IF a < b THEN a ELSE b

\* Handler c stands at s, not in a write.
At(c, s) == step[c] = s /\ writing[c] = Nothing

\* state.read() and state.write() get their guard.
CanRead == \A c \in Conns : holds[c] # "write"
CanWrite == \A c \in Conns : holds[c] = "none"

Advance(c, s) == step' = [step EXCEPT ![c] = s]

\* sink.send(m).await? with a guard in scope.  It waits when the socket is
\* full; when the client is gone it returns an error, or loses m.
Send(c, m, guard, after) ==
  \/ /\ Gone(c)
     /\ Advance(c, "failed")
     /\ UNCHANGED <<writing, holds, outbox>>
  \/ /\ Advance(c, after)
     /\ IF Gone(c)
          THEN UNCHANGED <<writing, holds, outbox>>
          ELSE IF Len(outbox[c]) < Buffer
            THEN /\ outbox' = [outbox EXCEPT ![c] = Append(@, m)]
                 /\ UNCHANGED <<writing, holds>>
            ELSE /\ writing' = [writing EXCEPT ![c] = m]
                 /\ holds' = [holds EXCEPT ![c] = guard]
                 /\ UNCHANGED outbox

\* Mutant: the guard outlives the write.
FlushKeepsGuard(c) ==
  /\ writing[c] # Nothing
  /\ ~Gone(c)
  /\ Len(outbox[c]) < Buffer
  /\ outbox' = [outbox EXCEPT ![c] = Append(@, writing[c])]
  /\ writing' = [writing EXCEPT ![c] = Nothing]
  /\ UNCHANGED <<step, holds, inbox, channelVars, clientVars>>

\* The write that waited is over, and its guard is dropped.
Flush(c) ==
  /\ writing[c] # Nothing
  /\ \/ /\ Gone(c)
        /\ Advance(c, "failed") \/ UNCHANGED step
        /\ UNCHANGED outbox
     \/ /\ ~Gone(c)
        /\ Len(outbox[c]) < Buffer
        /\ outbox' = [outbox EXCEPT ![c] = Append(@, writing[c])]
        /\ UNCHANGED step
  /\ writing' = [writing EXCEPT ![c] = Nothing]
  /\ holds' = [holds EXCEPT ![c] = "none"]
  /\ UNCHANGED <<inbox, channelVars, clientVars>>

\* broadcast_tx.send(): it never waits, the oldest makes room.
Air(m) ==
  /\ aired' = IF Len(aired) = Capacity THEN Append(Tail(aired), m) ELSE Append(aired, m)
  /\ behind' = [c \in Conns |-> IF Receives(c) THEN Lower(behind[c] + 1, Capacity + 1) ELSE 0]
  /\ since' = [c \in Conns |-> IF Receives(c) THEN Lower(since[c] + 1, Capacity) ELSE 0]

-----------------------------------------------------------------------------
(* The handler.  What `state` does in a step is added by the room.          *)

SendManifest(c, guard, after) ==
  /\ At(c, "manifest")
  /\ CanRead
  /\ Send(c, Message("manifest"), guard, after)
  /\ UNCHANGED <<inbox, channelVars, clientVars>>

SendSnapshot(c, s, guard) ==
  /\ At(c, "snapshot")
  /\ CanRead
  /\ Send(c, Snapshot(s), guard, "subscribe")
  /\ UNCHANGED <<inbox, channelVars, clientVars>>

\* Mutant: it receives what was still in the channel.
SubscribeToOld(c) ==
  /\ At(c, "subscribe")
  /\ behind' = [behind EXCEPT ![c] = Len(aired)]
  /\ since' = [since EXCEPT ![c] = Len(aired)]
  /\ Advance(c, "loop")
  /\ UNCHANGED <<writing, holds, inbox, outbox, aired, clientVars>>

\* broadcast_tx.subscribe(): it receives what is broadcast from here on.
Subscribe(c) ==
  /\ At(c, "subscribe")
  /\ behind' = [behind EXCEPT ![c] = 0]
  /\ since' = [since EXCEPT ![c] = 0]
  /\ Advance(c, "loop")
  /\ UNCHANGED <<writing, holds, inbox, outbox, aired, clientVars>>

\* Mutant: Err(Lagged) leaves nothing to receive.
RelaySkipsAll(c) ==
  /\ At(c, "loop")
  /\ behind[c] > 0
  /\ IF behind[c] > Capacity
       THEN /\ behind' = [behind EXCEPT ![c] = 0]
            /\ UNCHANGED <<handlerVars, outbox>>
       ELSE /\ behind' = [behind EXCEPT ![c] = @ - 1]
            /\ Send(c, aired[Len(aired) - behind[c] + 1], "none", "loop")
  /\ UNCHANGED <<inbox, aired, since, clientVars>>

\* broadcast_rx.recv(): Err(Lagged) moves the receiver to the oldest broadcast
\* there is, and is not told to the client.
Relay(c) ==
  /\ At(c, "loop")
  /\ behind[c] > 0
  /\ IF behind[c] > Capacity
       THEN /\ behind' = [behind EXCEPT ![c] = Capacity]
            /\ UNCHANGED <<handlerVars, outbox>>
       ELSE /\ behind' = [behind EXCEPT ![c] = @ - 1]
            /\ Send(c, aired[Len(aired) - behind[c] + 1], "none", "loop")
  /\ UNCHANGED <<inbox, aired, since, clientVars>>

\* stream.next() returns request r.
Takes(c, r) ==
  /\ At(c, "loop")
  /\ inbox[c] # <<>>
  /\ Head(inbox[c]) = r
  /\ inbox' = [inbox EXCEPT ![c] = Tail(@)]

\* A request that touches nothing but its own connection: m is the answer.
Answer(c, r, m, guard) ==
  /\ Takes(c, r)
  /\ guard = "read" => CanRead
  /\ Send(c, m, guard, "loop")
  /\ UNCHANGED <<channelVars, clientVars>>

\* stream.next() returns None, or an error: out of the loop.
HangUp(c) ==
  /\ At(c, "loop")
  /\ Gone(c)
  /\ Advance(c, "leaving")
  /\ UNCHANGED <<writing, holds, inbox, outbox, channelVars, clientVars>>

-----------------------------------------------------------------------------
(* The client.                                                              *)

\* Connection::connect() sent Auth and the handler read it: the session is
\* registered.  A socket that closes before that was never open here.
Connect(c) ==
  /\ client[c] = "none"
  /\ Cardinality({d \in Conns : client[d] # "none"}) < MaxConns
  /\ CanWrite
  /\ client' = [client EXCEPT ![c] = "manifest"]
  /\ Advance(c, "manifest")
  /\ UNCHANGED <<writing, holds, inbox, outbox, channelVars, heard, requested>>

\* What connect(), and then the application, makes of message m.
ClientAfter(c, m) ==
  CASE client[c] = "ready" -> "ready"
    [] client[c] # "ready" /\ m.kind = "system" -> client[c]
    [] client[c] = "manifest" /\ m.kind = "manifest" -> "initial"
    [] client[c] = "initial" /\ m.kind = "snapshot" -> "ready"
    [] OTHER -> "refused"

\* A client that waits for its write to finish reads nothing.
ClientReads(c) ==
  /\ client[c] \in {"manifest", "initial", "ready"}
  /\ outbox[c] # <<>>
  /\ LET m == Head(outbox[c]) IN
       /\ client' = [client EXCEPT ![c] = ClientAfter(c, m)]
       /\ IF m.kind = "snapshot"
            THEN heard' = [heard EXCEPT ![c] = m]
            ELSE UNCHANGED heard
  /\ outbox' = [outbox EXCEPT ![c] = Tail(@)]
  /\ UNCHANGED <<handlerVars, inbox, channelVars, requested>>

\* send_intent(), ping(), request_transfer(): they wait when the socket is full.
ClientRequests(c, r) ==
  /\ client[c] = "ready"
  /\ requested < MaxRequests
  /\ requested' = requested + 1
  /\ IF Len(inbox[c]) < Buffer
       THEN /\ inbox' = [inbox EXCEPT ![c] = Append(@, r)]
            /\ UNCHANGED client
       ELSE /\ client' = [client EXCEPT ![c] = "sending"]
            /\ UNCHANGED inbox
  /\ UNCHANGED <<handlerVars, outbox, channelVars, heard>>

\* The write that waited is over.
ClientSent(c, r) ==
  /\ client[c] = "sending"
  /\ Len(inbox[c]) < Buffer
  /\ client' = [client EXCEPT ![c] = "ready"]
  /\ inbox' = [inbox EXCEPT ![c] = Append(@, r)]
  /\ UNCHANGED <<handlerVars, outbox, channelVars, heard, requested>>

\* The client, or the network, closes the socket; or the handler did, and there
\* is nothing left to read.
ClientCloses(c) ==
  /\ client[c] \in {"manifest", "initial", "ready", "sending"}
  /\ client' = [client EXCEPT ![c] = "closed"]
  /\ outbox' = [outbox EXCEPT ![c] = <<>>]
  /\ UNCHANGED <<handlerVars, inbox, channelVars, heard, requested>>

-----------------------------------------------------------------------------
\* What handler and client of c do whatever the room is.
Shared(c) ==
  \/ Flush(c)
  \/ Subscribe(c)
  \/ Relay(c)
  \/ HangUp(c)
  \/ ClientCloses(c)

(***************************************************************************)
(* The handler waits for the client to read and the client for the handler *)
(* to read: with both directions full neither ever does.  While the        *)
(* handler keeps a guard it stops every other connection too.              *)
(***************************************************************************)
BothWrite(c) == writing[c] # Nothing /\ client[c] = "sending" /\ Len(inbox[c]) = Buffer

Stuck(c) == BothWrite(c) \/ \E d \in Conns : BothWrite(d) /\ holds[d] # "none"

=============================================================================
