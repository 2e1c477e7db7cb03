------------------------------- MODULE Daemon -------------------------------
(***************************************************************************)
(* interconnect-daemon: the start-up loop of Daemon::run, the per-room     *)
(* message log and read cursor, one connector task per room, and the       *)
(* connection tasks that serve CLI requests (daemon.rs, room.rs, cli.rs).  *)
(*                                                                         *)
(* Every critical section of the rooms mutex is one action: the code holds *)
(* no guard across an await.  Tasks interleave between actions.            *)
(*                                                                         *)
(* A snapshot is represented by its number in the order the connector task *)
(* sent it (1, 2, ... per room), an intent by its number in the order the  *)
(* daemon answered `sent` for it.                                          *)
(***************************************************************************)
EXTENDS Protocol, FiniteSets, Functions

CONSTANTS
  Rooms,       \* names configured in interconnect.toml
  NoRoom,      \* a name that is not configured
  Clients,     \* CLI processes, each with its connection
  Ops,         \* the requests the CLI processes make
  MaxEmitted,  \* bound: snapshots each connector task sends
  MaxSent      \* bound: send requests per room

ASSUME ConstantsAssumption ==
  /\ NoRoom \notin Rooms
  /\ Ops \subseteq RequestOps
  /\ MaxEmitted \in Nat \ {0}
  /\ MaxSent \in Nat

Names == Rooms \cup {NoRoom}

VARIABLES
  \* Daemon::run
  boot,       \* where the start-up loop stands
  todo,       \* rooms whose connector was not tried yet
  starting,   \* the room being connected, or NoRoom
  \* the connector task of each room (room.rs) and its two channels
  task,
  push,       \* push_tx / push_rx: snapshots on their way to the log
  intents,    \* intents on their way to the connector
  \* RoomState
  handle,     \* RoomState.handle is Some
  messages,
  cursor,
  \* connections
  server,     \* where the connection's task stands
  client,     \* the CLI process at the other end
  req,
  reply,
  \* history
  emitted,    \* snapshots sent on push_tx
  sent,       \* intents answered with `sent`
  forwarded,  \* intents handed to send_intent
  dropped,    \* intents that will never be
  read,       \* messages a CLI process received
  lost        \* messages drained for a CLI process that never got them

bootVars == <<boot, todo, starting>>
taskVars == <<task, push, intents>>
roomVars == <<handle, messages, cursor>>
connVars == <<server, client, req, reply>>
snapshotHistory == <<emitted, read, lost>>
intentHistory == <<sent, forwarded, dropped>>
vars == <<bootVars, taskVars, roomVars, connVars, snapshotHistory, intentHistory>>

BootStates == {"next", "connecting", "storing", "accepting"}
TaskStates == {"none", "selecting", "sending", "dead"}
ClientStates == {"idle", "waiting", "gone"}

\* free: no connection; queued: in the listener's backlog; accepted: task
\* spawned; drained: found nothing on the fast path; armed: about to create a
\* Notified; parked: awaiting it; woken: it fired; replying: response ready;
\* written: response in the socket.
ServerStates == {"free", "queued", "accepted", "drained", "armed", "parked",
                 "woken", "replying", "written"}

Requests == [op : Ops, room : Names]
Replies == [kind : ResponseKinds, batch : Seq(Nat)]

NoRequest == [op |-> "list", room |-> NoRoom]
NoReply == [kind |-> "sent", batch |-> <<>>]

-----------------------------------------------------------------------------
(* RoomState *)

\* drain_pending's slice self.messages[self.cursor..]
Unread(r) == SubSeq(messages[r], cursor[r] + 1, Len(messages[r]))

ParkedOn(r) == {c \in Clients : server[c] = "parked" /\ req[c].room = r}

\* What client c's connection has drained from room r and not got rid of.
Held(c, r) == IF req[c].room = r THEN Range(reply[c].batch) ELSE {}

-----------------------------------------------------------------------------
Init ==
  /\ boot = "next"
  /\ todo = Rooms
  /\ starting = NoRoom
  /\ task = [r \in Rooms |-> "none"]
  /\ push = [r \in Rooms |-> <<>>]
  /\ intents = [r \in Rooms |-> <<>>]
  /\ handle = [r \in Rooms |-> FALSE]
  /\ messages = [r \in Rooms |-> <<>>]
  /\ cursor = [r \in Rooms |-> 0]
  /\ server = [c \in Clients |-> "free"]
  /\ client = [c \in Clients |-> "idle"]
  /\ req = [c \in Clients |-> NoRequest]
  /\ reply = [c \in Clients |-> NoReply]
  /\ emitted = [r \in Rooms |-> 0]
  /\ sent = [r \in Rooms |-> 0]
  /\ forwarded = [r \in Rooms |-> {}]
  /\ dropped = [r \in Rooms |-> {}]
  /\ read = [r \in Rooms |-> {}]
  /\ lost = [r \in Rooms |-> {}]

-----------------------------------------------------------------------------
(* Daemon::run: rooms are connected one after the other, in the map's      *)
(* arbitrary order, and only then does the accept loop start.              *)

StartRoom(r) ==
  /\ boot = "next"
  /\ r \in todo
  /\ todo' = todo \ {r}
  /\ starting' = r
  /\ boot' = "connecting"
  /\ UNCHANGED <<taskVars, roomVars, connVars, snapshotHistory, intentHistory>>

\* spawn_room got Err from parse_opts or connect: logged, the room stays
\* without a handle.
ConnectFails ==
  /\ boot = "connecting"
  /\ boot' = "next"
  /\ starting' = NoRoom
  /\ UNCHANGED <<todo, taskVars, roomVars, connVars, snapshotHistory, intentHistory>>

\* connect returned: the initial snapshot is sent and the task spawned.
ConnectSucceeds ==
  /\ boot = "connecting"
  /\ boot' = "storing"
  /\ task' = [task EXCEPT ![starting] = "selecting"]
  /\ push' = [push EXCEPT ![starting] = Append(@, emitted[starting] + 1)]
  /\ emitted' = [emitted EXCEPT ![starting] = @ + 1]
  /\ UNCHANGED <<todo, starting, intents, roomVars, connVars, read, lost, intentHistory>>

\* The handle is stored under the lock; the drain task starts with it.
StoreHandle ==
  /\ boot = "storing"
  /\ handle' = [handle EXCEPT ![starting] = TRUE]
  /\ boot' = "next"
  /\ starting' = NoRoom
  /\ UNCHANGED <<todo, taskVars, messages, cursor, connVars, snapshotHistory, intentHistory>>

StartAccepting ==
  /\ boot = "next"
  /\ todo = {}
  /\ boot' = "accepting"
  /\ UNCHANGED <<todo, starting, taskVars, roomVars, connVars, snapshotHistory, intentHistory>>

-----------------------------------------------------------------------------
(* The connector task: one loop of select! over conn.recv() and intents.   *)

EmitSnapshot(r) ==
  /\ task[r] = "selecting"
  /\ emitted[r] < MaxEmitted
  /\ push' = [push EXCEPT ![r] = Append(@, emitted[r] + 1)]
  /\ emitted' = [emitted EXCEPT ![r] = @ + 1]
  /\ UNCHANGED <<bootVars, task, intents, roomVars, connVars, read, lost, intentHistory>>

\* Mutant: the intent is looked at but stays queued.
ForwardIntentPeeks(r) ==
  /\ task[r] = "selecting"
  /\ intents[r] # <<>>
  /\ forwarded' = [forwarded EXCEPT ![r] = @ \cup {Head(intents[r])}]
  /\ task' = [task EXCEPT ![r] = "sending"]
  /\ UNCHANGED <<bootVars, intents, push, roomVars, connVars, snapshotHistory, sent, dropped>>

\* An intent that deserialises is sent; the loop is busy until that returns.
ForwardIntent(r) ==
  /\ task[r] = "selecting"
  /\ intents[r] # <<>>
  /\ intents' = [intents EXCEPT ![r] = Tail(@)]
  /\ forwarded' = [forwarded EXCEPT ![r] = @ \cup {Head(intents[r])}]
  /\ task' = [task EXCEPT ![r] = "sending"]
  /\ UNCHANGED <<bootVars, push, roomVars, connVars, snapshotHistory, sent, dropped>>

\* One that does not is discarded without a word.
DiscardIntent(r) ==
  /\ task[r] = "selecting"
  /\ intents[r] # <<>>
  /\ intents' = [intents EXCEPT ![r] = Tail(@)]
  /\ dropped' = [dropped EXCEPT ![r] = @ \cup {Head(intents[r])}]
  /\ UNCHANGED <<bootVars, task, push, roomVars, connVars, snapshotHistory, sent, forwarded>>

\* send_intent returned; whatever it returned is ignored.
SendReturns(r) ==
  /\ task[r] = "sending"
  /\ task' = [task EXCEPT ![r] = "selecting"]
  /\ UNCHANGED <<bootVars, push, intents, roomVars, connVars, snapshotHistory, intentHistory>>

\* Mutant: the receiver outlives the loop, so queued intents stay.
TaskEndsKeepsQueue(r) ==
  /\ task[r] = "selecting"
  /\ task' = [task EXCEPT ![r] = "dead"]
  /\ UNCHANGED <<bootVars, push, intents, roomVars, connVars, snapshotHistory, intentHistory>>

\* conn.recv() gave None or Err: the loop breaks and drops its receiver.
TaskEnds(r) ==
  /\ task[r] = "selecting"
  /\ task' = [task EXCEPT ![r] = "dead"]
  /\ intents' = [intents EXCEPT ![r] = <<>>]
  /\ dropped' = [dropped EXCEPT ![r] = @ \cup Range(intents[r])]
  /\ UNCHANGED <<bootVars, push, roomVars, connVars, snapshotHistory, sent, forwarded>>

\* Mutant: push() appends and notifies nobody.
PushMessageSilently(r) ==
  /\ handle[r]
  /\ push[r] # <<>>
  /\ messages' = [messages EXCEPT ![r] = Append(@, Head(push[r]))]
  /\ push' = [push EXCEPT ![r] = Tail(@)]
  /\ UNCHANGED <<bootVars, task, intents, handle, cursor, connVars, snapshotHistory, intentHistory>>

\* Mutant: the log takes the newest snapshot of the channel first.
PushMessageNewestFirst(r) ==
  /\ handle[r]
  /\ push[r] # <<>>
  /\ messages' = [messages EXCEPT ![r] = Append(@, push[r][Len(push[r])])]
  /\ push' = [push EXCEPT ![r] = SubSeq(@, 1, Len(@) - 1)]
  /\ server' = [c \in Clients |-> IF c \in ParkedOn(r) THEN "woken" ELSE server[c]]
  /\ UNCHANGED <<bootVars, task, intents, handle, cursor, client, req, reply,
                 snapshotHistory, intentHistory>>

\* The drain task: push() appends and calls notify_waiters().
PushMessage(r) ==
  /\ handle[r]
  /\ push[r] # <<>>
  /\ messages' = [messages EXCEPT ![r] = Append(@, Head(push[r]))]
  /\ push' = [push EXCEPT ![r] = Tail(@)]
  /\ server' = [c \in Clients |-> IF c \in ParkedOn(r) THEN "woken" ELSE server[c]]
  /\ UNCHANGED <<bootVars, task, intents, handle, cursor, client, req, reply,
                 snapshotHistory, intentHistory>>

-----------------------------------------------------------------------------
(* The CLI: connect, write one request line, half-close, read one line.    *)

\* Send requests on their way to room r.
PendingSends(r) == {c \in Clients : /\ req[c] = [op |-> "send", room |-> r]
                                   /\ server[c] \in {"queued", "accepted"}}

Issue(c, op, name) ==
  /\ client[c] = "idle"
  /\ (op = "send" /\ name \in Rooms) => sent[name] + Cardinality(PendingSends(name)) < MaxSent
  /\ client' = [client EXCEPT ![c] = "waiting"]
  /\ server' = [server EXCEPT ![c] = "queued"]
  /\ req' = [req EXCEPT ![c] = [op |-> op, room |-> name]]
  /\ UNCHANGED <<bootVars, taskVars, roomVars, reply, snapshotHistory, intentHistory>>

\* The connection is over; its slot stands for the next CLI process.
Close(c) ==
  /\ server' = [server EXCEPT ![c] = "free"]
  /\ client' = [client EXCEPT ![c] = "idle"]
  /\ req' = [req EXCEPT ![c] = NoRequest]
  /\ reply' = [reply EXCEPT ![c] = NoReply]

\* What client c's connection holds is added to one of the two histories.
Settle(history, c) == [r \in Rooms |-> history[r] \cup Held(c, r)]

\* Only what decodes as Response::Messages reaches the user as messages.
ReadReply(c) ==
  /\ server[c] = "written"
  /\ IF Decode(reply[c].kind) = "messages"
       THEN read' = Settle(read, c) /\ UNCHANGED lost
       ELSE lost' = Settle(lost, c) /\ UNCHANGED read
  /\ Close(c)
  /\ UNCHANGED <<bootVars, taskVars, roomVars, emitted, intentHistory>>

\* The process is killed (or its hook times out) before it read the answer;
\* the connection's task finds out only when it writes.
ClientKilled(c) ==
  /\ client[c] = "waiting"
  /\ IF server[c] = "written"
       THEN Close(c) /\ lost' = Settle(lost, c)
       ELSE client' = [client EXCEPT ![c] = "gone"] /\ UNCHANGED <<server, req, reply, lost>>
  /\ UNCHANGED <<bootVars, taskVars, roomVars, emitted, read, intentHistory>>

-----------------------------------------------------------------------------
(* handle_connection_inner and dispatch                                    *)

Accept(c) ==
  /\ boot = "accepting"
  /\ server[c] = "queued"
  /\ server' = [server EXCEPT ![c] = "accepted"]
  /\ UNCHANGED <<bootVars, taskVars, roomVars, client, req, reply, snapshotHistory, intentHistory>>

Respond(c, kind, batch) ==
  /\ server' = [server EXCEPT ![c] = "replying"]
  /\ reply' = [reply EXCEPT ![c] = [kind |-> kind, batch |-> batch]]

\* Mutant: a room that is not configured is answered with silence.
ServeQueryKnownRooms(c) ==
  /\ server[c] = "accepted"
  /\ \/ req[c].op = "list" /\ Respond(c, "rooms", <<>>)
     \/ req[c].op = "state" /\ req[c].room \in Rooms /\ Respond(c, "state", <<>>)
  /\ UNCHANGED <<bootVars, taskVars, roomVars, client, req, snapshotHistory, intentHistory>>

\* List and State answer from the map and change nothing; a request for a
\* room that is not configured is an error, whatever its operation.
ServeQuery(c) ==
  /\ server[c] = "accepted"
  /\ \/ req[c].op = "list" /\ Respond(c, "rooms", <<>>)
     \/ req[c].op = "state" /\ req[c].room \in Rooms /\ Respond(c, "state", <<>>)
     \/ req[c].op # "list" /\ req[c].room \notin Rooms /\ Respond(c, "error", <<>>)
  /\ UNCHANGED <<bootVars, taskVars, roomVars, client, req, snapshotHistory, intentHistory>>

ServeSend(c) ==
  LET r == req[c].room IN
  /\ server[c] = "accepted"
  /\ req[c].op = "send"
  /\ r \in Rooms
  /\ IF handle[r]
       THEN /\ sent' = [sent EXCEPT ![r] = @ + 1]
            /\ IF task[r] = "dead"     \* handle.tx.send fails and is ignored
                 THEN /\ dropped' = [dropped EXCEPT ![r] = @ \cup {sent[r] + 1}]
                      /\ UNCHANGED intents
                 ELSE /\ intents' = [intents EXCEPT ![r] = Append(@, sent[r] + 1)]
                      /\ UNCHANGED dropped
            /\ Respond(c, "sent", <<>>)
       ELSE /\ Respond(c, "error", <<>>)
            /\ UNCHANGED <<sent, dropped, intents>>
  /\ UNCHANGED <<bootVars, task, push, roomVars, client, req, snapshotHistory, forwarded>>

\* Mutant: the slice is taken and the cursor stays.
DrainOrKeepsCursor(c, mayAnswerEmpty, next) ==
  LET r == req[c].room IN
  /\ IF mayAnswerEmpty \/ Unread(r) # <<>>
       THEN Respond(c, "messages", Unread(r))
       ELSE server' = [server EXCEPT ![c] = next] /\ UNCHANGED reply
  /\ UNCHANGED <<bootVars, taskVars, roomVars, client, req, snapshotHistory, intentHistory>>

\* Mutant: only the newest message is answered, the cursor moves past all.
DrainOrLatestOnly(c, mayAnswerEmpty, next) ==
  LET r == req[c].room
      n == Len(messages[r])
  IN
  /\ cursor' = [cursor EXCEPT ![r] = n]
  /\ IF mayAnswerEmpty \/ Unread(r) # <<>>
       THEN Respond(c, "messages", IF Unread(r) = <<>> THEN <<>> ELSE <<messages[r][n]>>)
       ELSE server' = [server EXCEPT ![c] = next] /\ UNCHANGED reply
  /\ UNCHANGED <<bootVars, taskVars, handle, messages, client, req,
                 snapshotHistory, intentHistory>>

\* drain_pending under the lock, then answer or go on waiting at `next`.
DrainOr(c, mayAnswerEmpty, next) ==
  LET r == req[c].room IN
  /\ cursor' = [cursor EXCEPT ![r] = Len(messages[r])]
  /\ IF mayAnswerEmpty \/ Unread(r) # <<>>
       THEN Respond(c, "messages", Unread(r))
       ELSE server' = [server EXCEPT ![c] = next] /\ UNCHANGED reply
  /\ UNCHANGED <<bootVars, taskVars, handle, messages, client, req,
                 snapshotHistory, intentHistory>>

\* Mutant: a waiting recv on a room that is not configured falls through.
ServeRecvUnchecked(c) ==
  /\ server[c] = "accepted"
  /\ req[c].op \in {"recv_wait", "recv_nowait"}
  /\ IF req[c].room \in Rooms
       THEN DrainOr(c, req[c].op = "recv_nowait", "drained")
       ELSE /\ server' = [server EXCEPT ![c] = "drained"]
            /\ UNCHANGED <<bootVars, taskVars, roomVars, client, req, reply,
                           snapshotHistory, intentHistory>>

ServeRecv(c) ==
  /\ server[c] = "accepted"
  /\ req[c].op \in {"recv_wait", "recv_nowait"}
  /\ req[c].room \in Rooms
  /\ DrainOr(c, req[c].op = "recv_nowait", "drained")

\* The second critical section: the Notify handle is cloned, nothing checked.
CloneNotify(c) ==
  /\ server[c] = "drained"
  /\ server' = [server EXCEPT ![c] = "armed"]
  /\ UNCHANGED <<bootVars, taskVars, roomVars, client, req, reply, snapshotHistory, intentHistory>>

\* notify.notified() registers for notify_waiters from here on.
Park(c) ==
  /\ server[c] = "armed"
  /\ server' = [server EXCEPT ![c] = "parked"]
  /\ UNCHANGED <<bootVars, taskVars, roomVars, client, req, reply, snapshotHistory, intentHistory>>

\* Mutant: whoever is woken answers, drained or not.
RecheckAnswersAnyway(c) ==
  /\ server[c] = "woken"
  /\ DrainOr(c, TRUE, "armed")

\* Woken: drain again; if another waiter drained it, loop and wait again.
Recheck(c) ==
  /\ server[c] = "woken"
  /\ DrainOr(c, FALSE, "armed")

\* write_all fails when the peer is gone; the drained batch dies with it.
WriteReply(c) ==
  /\ server[c] = "replying"
  /\ IF client[c] = "gone"
       THEN Close(c) /\ lost' = Settle(lost, c)
       ELSE server' = [server EXCEPT ![c] = "written"] /\ UNCHANGED <<client, req, reply, lost>>
  /\ UNCHANGED <<bootVars, taskVars, roomVars, emitted, read, intentHistory>>

-----------------------------------------------------------------------------
Boot == (\E r \in Rooms : StartRoom(r)) \/ ConnectFails \/ ConnectSucceeds
          \/ StoreHandle \/ StartAccepting

RoomStep(r) == EmitSnapshot(r) \/ ForwardIntent(r) \/ DiscardIntent(r)
                 \/ SendReturns(r) \/ TaskEnds(r) \/ PushMessage(r)

CliStep(c) == (\E op \in Ops, name \in Names : Issue(c, op, name))
                \/ ReadReply(c) \/ ClientKilled(c)

ServerStep(c) == Accept(c) \/ ServeQuery(c) \/ ServeSend(c) \/ ServeRecv(c)
                   \/ CloneNotify(c) \/ Park(c) \/ Recheck(c) \/ WriteReply(c)

Next == Boot \/ (\E r \in Rooms : RoomStep(r))
             \/ (\E c \in Clients : CliStep(c) \/ ServerStep(c))

Spec == Init /\ [][Next]_vars

-----------------------------------------------------------------------------
(* Safety *)

Types ==
  /\ boot \in BootStates
  /\ todo \in SUBSET Rooms
  /\ starting \in Names
  /\ (boot \in {"connecting", "storing"}) <=> (starting \in Rooms)
  /\ task \in [Rooms -> TaskStates]
  /\ push \in [Rooms -> Seq(Nat)]
  /\ intents \in [Rooms -> Seq(Nat)]
  /\ handle \in [Rooms -> BOOLEAN]
  /\ messages \in [Rooms -> Seq(Nat)]
  /\ cursor \in [Rooms -> Nat]
  /\ server \in [Clients -> ServerStates]
  /\ client \in [Clients -> ClientStates]
  /\ req \in [Clients -> [op : RequestOps, room : Names]]
  /\ reply \in [Clients -> Replies]
  /\ emitted \in [Rooms -> Nat]
  /\ sent \in [Rooms -> Nat]
  /\ forwarded \in [Rooms -> SUBSET Nat]
  /\ dropped \in [Rooms -> SUBSET Nat]
  /\ read \in [Rooms -> SUBSET Nat]
  /\ lost \in [Rooms -> SUBSET Nat]

WaitsOnKnownRoom ==
  \A c \in Clients :
    server[c] \in {"drained", "armed", "parked", "woken"} =>
      req[c].op = "recv_wait" /\ req[c].room \in Rooms

\* Every variable has its type, and a connection waits only on a room the map
\* holds, so that the unchecked guard[&room] does not panic.
TypeOK == Types /\ WaitsOnKnownRoom

\* The log followed by the push channel is what the connector sent, in the
\* order it sent it, and a drained batch is a run of consecutive messages.
SnapshotsStayInOrder ==
  /\ \A r \in Rooms : messages[r] \o push[r] = [i \in 1 .. emitted[r] |-> i]
  /\ \A c \in Clients : LET b == reply[c].batch IN
       \A i \in 1 .. Len(b) - 1 : b[i + 1] = b[i] + 1

\* What the connections hold of room r.
HeldFrom(r) == [c \in Clients |-> Held(c, r)]

\* The sets rd, ls and hd[c] split `all`: nothing missing, nothing twice.
Splits(all, rd, ls, hd) ==
  /\ all = rd \cup ls \cup UNION Range(hd)
  /\ rd \cap ls = {}
  /\ \A c \in DOMAIN hd : hd[c] \cap (rd \cup ls) = {}
  /\ \A c, d \in DOMAIN hd : c # d => hd[c] \cap hd[d] = {}

\* Whatever readers share a room, each message below its cursor is in exactly
\* one place: with one connection, read by one process, or lost with one.
\* No two readers get the same message and the cursor skips none.
EachMessageInOnePlace ==
  \A r \in Rooms :
    /\ cursor[r] <= Len(messages[r])
    /\ Splits(1 .. cursor[r], read[r], lost[r], HeldFrom(r))

\* A `recv` that waits is never answered with an empty batch, also when
\* another waiter drained the message that woke it.
WaitingReaderGetsNews ==
  \A c \in Clients :
    (req[c].op = "recv_wait" /\ reply[c].kind = "messages") => reply[c].batch # <<>>

Sorted(s) == \A i, j \in DOMAIN s : i < j => s[i] < s[j]

\* Each intent answered with `sent` is queued, was handed to the connector or
\* was dropped, one of the three, and the connector gets them in the order
\* they were accepted.
EachIntentInOnePlace ==
  \A r \in Rooms :
    LET queued == Range(intents[r]) IN
    /\ 1 .. sent[r] = forwarded[r] \cup dropped[r] \cup queued
    /\ forwarded[r] \cap dropped[r] = {}
    /\ \A i \in forwarded[r] \cup dropped[r], j \in queued : i < j
    /\ Sorted(intents[r])

-----------------------------------------------------------------------------
(* Each room implements the abstract mailbox. *)

Inbox(r) == INSTANCE Mailbox WITH
  Readers <- Clients,
  count <- Len(messages[r]),
  unread <- Unread(r),
  held <- HeldFrom(r),
  read <- read[r],
  lost <- lost[r]

\* Every step of the daemon is, for each room, a step of its mailbox or none.
ImplementsMailbox ==
  /\ \A r \in Rooms : Inbox(r)!Init
  /\ [][\A r \in Rooms : Inbox(r)!Next \/ UNCHANGED Inbox(r)!vars]_vars

-----------------------------------------------------------------------------
(* Liveness.  Tokio polls every task that can run, and its tasks never wait *)
(* for a lock held across an await.  Nothing is assumed of the CLI's users  *)
(* or of what a connector receives.                                         *)

DaemonRuns ==
  /\ WF_vars((\E r \in Rooms : StartRoom(r)) \/ StoreHandle \/ StartAccepting)
  /\ \A r \in Rooms : WF_vars(PushMessage(r)) /\ WF_vars(ForwardIntent(r) \/ DiscardIntent(r))
  /\ \A c \in Clients : WF_vars(ServerStep(c))

\* The platforms answer: connect() and send_intent() return.
PlatformsAnswer ==
  /\ WF_vars(ConnectFails \/ ConnectSucceeds)
  /\ \A r \in Rooms : WF_vars(SendReturns(r))

FairSpec == Spec /\ DaemonRuns /\ PlatformsAnswer

\* A message that arrives while a reader is parked is drained by some reader.
NextMessageReachesAReader ==
  \A r \in Rooms : \A n \in 1 .. MaxEmitted :
    (ParkedOn(r) # {} /\ push[r] # <<>> /\ Len(messages[r]) = n - 1) ~> (cursor[r] >= n)

\* A request that does not wait for messages is answered.
RequestsAreAnswered ==
  \A c \in Clients :
    (server[c] = "queued" /\ req[c].op # "recv_wait") ~> (server[c] \in {"written", "free"})

\* An accepted intent does not stay queued for ever.
AcceptedIntentsAreSettled ==
  \A r \in Rooms : \A i \in 1 .. MaxSent : (i \in Range(intents[r])) ~> (i \notin Range(intents[r]))

-----------------------------------------------------------------------------
(* Claims of comments and docs, for the runs that refute them. *)

\* daemon.rs:233: no notify is missed between the drain and the wait, so a
\* reader is not parked while messages are unread.
NoMissedNotify ==
  \A c \in Clients : server[c] = "parked" => Unread(req[c].room) = <<>>

\* daemon.md:161: the CLI understands every response the daemon writes as what
\* it is.
RepliesDecodeAsThemselves ==
  \A c \in Clients : server[c] = "written" => Decode(reply[c].kind) = reply[c].kind

=============================================================================
