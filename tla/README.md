# Interconnect in TLA+

This directory models `interconnect` in TLA+: the room daemon, the connectors it
runs, `interconnect watch`, and the example authorities. TLC checks the models on small instances;
TLAPS proves for every size what the passing runs show of safety. The code is the reference: an action stands for a critical section, or for
what happens between two awaits, and "map" in `PROJECT.json` names the lines each
definition stands for.

1. The system: parts, interactions, what is hard
2. The modules: state and actions, and the code they stand for
3. What is checked: runs, bounds, fairness
4. What is proved
5. Where code and documentation disagree
6. What is not modelled
7. Plan

## 1. The system

### Parts

| Part | State it keeps | Operations | What is hard about it |
|---|---|---|---|
| Daemon (`interconnect-daemon/src/daemon.rs`) | per room: `messages` (append-only), `cursor`, `notify`, `handle` | start-up loop, `list`, `state`, `send`, `recv` (waiting or not), a task per room that logs snapshots | waiters woken together; a wake-up between unlock and wait; a client gone with a drained batch; one room that hangs during start-up |
| Connector tasks (`room.rs`) | the connection, an intent queue, a push channel | one `select!` loop per room over `conn.recv()` and the intents | an intent drops `conn.recv()` where it stands; the task ends and its handle stays |
| Connectors (`connectors/*`) | window of recent messages, position in the platform's stream (offset, token, queue, signature), transaction numbers | `connect`, `recv`, `send` | gap between history and live stream; acknowledge first, work later; timers restarted by intents; capped pages and windows |
| Socket protocol (`protocol.rs`, `cli.rs`) | none | one JSON line each way | untagged decoding |
| CLI (`cli_main.rs`) | none; `watch`: the batch it works through | `recv`, `send`, `state`, `list`, `watch`, `init` | killed while it waits; `watch` handles a batch the daemon has given up, and may fail in the middle |
| Client (`interconnect-client`) | transport, manifest | handshake, `recv`, `send_intent`, `transfer` | order of the first messages; both ends waiting in a write |
| Chat, webchat, process (`examples/*`) | room, sessions, broadcast channel | authenticate, snapshot, subscribe, intents, disconnect | snapshot sent before the broadcast is subscribed to; lagging receivers; a lock kept during a write |
| Game (`examples/game`) | world: items, players by identity | authenticate (with a passport), pick up, drop, use, transfer, disconnect | one identity on several connections; a passport shown twice; a transfer whose origin keeps the player |
| Forum, microblog (`examples/*`) | threads, replies, users; posts, follows | request and answer, each under one lock | pages of a list that grows at the front; counters that must agree; a timeline that leaves posts out |
| Core (`interconnect-core`) | none | wire types, identities, the `Authority` traits | |

### Interactions

A CLI process opens the Unix socket, writes one request line and reads one
response line. The daemon runs a task per connection; they share
`Arc<Mutex<HashMap<String, RoomState>>>` and keep no guard across an await. A
`send` puts the payload on the room's unbounded intent channel. The room's
connector task takes it from there to `send_intent()`, and turns each snapshot of
`conn.recv()` into an entry of the unbounded push channel; another task per room
takes it into the log and calls `notify_waiters()`. Nothing is persisted.

Between connector task and connector there is a call, `conn.recv()`, whose future
is dropped whenever an intent wins the `select!`. What the connector had taken
from its platform and not yet put in its window is gone then, unless its code
keeps it elsewhere. Every connector sends its whole window as a snapshot.

The example authorities are WebSocket servers. A handler task per connection
shares the room behind an `RwLock` and a `tokio::sync::broadcast` channel, and
keeps a guard over some of its writes. Zones of the game know each other only by
the passports that clients carry.

### What makes each part correct

* Daemon: however many readers share a room, each logged message goes to one of
  them, none is skipped, order is kept; a waiting reader is not answered empty;
  an accepted intent is handed over in order or dropped, never both.
* Connectors: what the platform was told it may forget, or what the position is
  past, has been shown; what recv() took from a stream is shown; windows are in
  order without repeats. None holds without exceptions; section 3 has the exact
  exception of each.
* `watch`: the command runs once for each message of the room that this process
  got, in order, unless the process ended first.
* Protocol: what the daemon answers is what the CLI understands.
* Chat, webchat, process: no client is shown an older state after a newer one, a
  client that has read everything knows the room as it is, a client that reads on
  gets there.
* Forum, microblog: a reader that turns all pages misses nothing that was there at
  the start; counters are the number of what they count; a reader of the timeline
  can tell from the ids what it has missed.
* Game: no item is made of nothing, import policies hold, players in a world are
  those of its connections.

"hazards" in `PROJECT.json` lists, line by line, what can go wrong and which
property is about it.

## 2. The modules

| Module | Stands for | Uses |
|---|---|---|
| `Protocol` | `Request`, `Response`, serde's choice among untagged variants | |
| `Mailbox` | abstract: the inbox a room promises its readers | |
| `Daemon` | `Daemon::run`, `RoomState`, connector tasks as the daemon sees them, connection tasks, CLI processes | `Protocol`, `Mailbox` |
| `DaemonProofs` | theorems about `Daemon` | `Daemon`, TLAPS |
| `Watch` | `interconnect watch` beside the daemon and other CLI processes | `Daemon` |
| `WatchProofs` | theorems about `Watch` | `Watch`, `DaemonProofs`, TLAPS |
| `RoomTask` | what every `spawn_*` of `room.rs` has in common, as a connector sees it | |
| `Slack`, `Discord`, `Irc`, `Signal`, `WhatsApp` | connectors that are handed messages over an open connection | `RoomTask` |
| `Streams` | a room with one of those | the five |
| `StreamsProofs` | theorems about `Streams` | `Streams`, `SequenceLemmas`, TLAPS |
| `LongPoll` | request, answer, position, restart | `RoomTask` |
| `Telegram`, `Zulip`, `Matrix` | connectors that long-poll | `LongPoll` |
| `Fs`, `Sqlite` | connectors that look at local data | `RoomTask` |
| `SqliteChat` | SQLite's chat mode: the table it makes, insert or replace | `Sqlite` |
| `Listing` | the page of a listing, fetched every 30 seconds | `RoomTask` |
| `Github`, `Maillist` | connectors that compare pages | `Listing` |
| `Dates` | the two algorithms that read timestamps | |
| `Polls` | a room with one of the connectors from `Telegram` on | those, `Dates` |
| `PollsProofs` | theorems about `Polls` | `Polls`, `SequenceLemmas`, TLAPS |
| `Sessions` | WebSocket handlers, broadcast channel, `interconnect-client` | |
| `Chat`, `Webchat`, `Process` | the examples of those names; `Process` with its client | `Sessions` |
| `Rooms` | one of those, with its clients | the three |
| `RoomsProofs` | theorems about `Rooms` | `Rooms`, `SequenceLemmas`, TLAPS |
| `Game` | zones, players, passports | |
| `GameProofs` | theorems about `Game` | `Game`, `SequenceLemmas`, TLAPS |
| `Identity` | identities, written and parsed | |
| `Forum` | the forum and a client that turns its pages | `Identity` |
| `Microblog` | the microblog and a reader of its timeline | |
| `Boards` | one of those two | the two |
| `BoardsProofs` | theorems about `Boards` and `Identity` | `Boards`, `SequenceLemmas`, TLAPS |
| `SequenceLemmas` | what windows, enumerations, prefixes and sums are; induction over the numbers | TLAPS |
| `MCDaemon`, `MCGame`, `MCBoards` | symmetry sets and names for TLC | |

`Streams`, `Polls`, `Rooms` and `Boards` pick one connector or example in
`Init`, as the configuration or the command line does, and instantiate its
module; the variables of the others keep their initial values. One run covers a
family, and the properties the members share are stated once.

### `Protocol`, `Mailbox`

A response is its kind. `Fields` lists what each variant serialises and, as no
field is optional, requires; `Decode` is the first variant in declaration order
whose fields are all there. `Mailbox` is a queue of unread messages: `Take(c)`
hands all of them to one reader, which finishes with them or vanishes.

### `Daemon`

*Data.* A snapshot is its number in the order the connector task sent it, an
intent its number in the order `sent` was answered. `messages`, `cursor` and
`handle` are the fields of `RoomState`; `push` and `intents` the two channels.

*Start-up.* `StartRoom`, `ConnectFails`/`ConnectSucceeds`, `StoreHandle` and
`StartAccepting` are the loop of `Daemon::run`: rooms one after the other in the
map's order (any order), the initial snapshot sent before the handle is stored,
`accept` only afterwards. The socket is bound before, so a CLI process can
connect and wait (`queued`) from the start.

*Connector task.* `EmitSnapshot`, `ForwardIntent`, `DiscardIntent` (a payload
that does not deserialise), `SendReturns` (its result is ignored), `TaskEnds`
(`recv()` gave `None` or an error); `PushMessage` is the task that logs.

*A connection.* `server[c]` is the place its task stands at:

    free -> queued -> accepted -> replying -> written -> free
                         |            ^
                         v            |
                      drained -> armed -> parked -> woken

`accepted -> drained` is the fast path of `recv` that found nothing; `drained ->
armed` the second critical section, which clones the `Notify`; `armed -> parked`
the call of `notified()`, from which on `notify_waiters()` counts; `woken` is what
`PushMessage` does to everyone parked. `Recheck` drains again, or goes back to
`armed`.

*CLI processes.* `Issue`, `ReadReply`, `ClientKilled`. A slot of `Clients` is used
again by the next process. The task of a connection learns that its peer is gone
only when it writes (`WriteReply`).

*History variables.* `emitted`, `sent`, `forwarded`, `dropped`, `read`, `lost` say
what happened; no guard reads them, save for the bounds.

### `Watch`

The processes of `Watchers` are those of `Daemon`, with what `handle_watch` adds:
`Ask` is the `recv` at the top of the loop, `GetAnswer` its answer or the `bail!`
after anything but messages; `RunCommand`, `CommandExits` a command from its start
to its end, whatever its status. `SpawnFails` and `WaitFails` are the two `?` that
end the loop with messages still in `batch`, `WatchKilled` a kill at any time;
what was in `batch` is `abandoned`. `StartAgain` is the user, who may start it
again. The other processes' steps are those of `Daemon`; what they read is
`printed`. Processes that watch no room the daemon knows are included.

### `RoomTask` and the connectors

The platform is the sequence `posted` of what was ever posted to it, `"message"`
or `"other"` (what `recv()` skips). A message is its position there. `window` is
the connector's `messages: VecDeque`, capped at `Cap`; `shown` is what was in a
snapshot. `task` is where the loop of `room.rs` stands; `TakeIntent` is the intent
that wins the `select!`, and each connector's `Cancel` says what dropping its
`recv()` costs. What an intent posts is posted like anything else. `TaskEnds`
is a failed `connect()`, and `recv()` returning `None` or an error.

| Module | Steps of `connect()` | Steps of `recv()` | What dropping `recv()` does |
|---|---|---|---|
| `Slack` | `OpenSocket`, `FetchHistory`, `NameHistory` | `ReadEnvelope`, `Acked`, `Named` | the envelope in `hand` is gone, acknowledged or not |
| `Discord` | `Connect` (history) | `OpenGateway` on the first poll, `NextEvent` | nothing, events stay queued |
| `Irc` | `Join`; `Joined` is the server's | `ReadLine`, `Pong` | a PONG may be cut off (`torn`) |
| `Signal` | `Spawn` | `ReadLine` | nothing, `next_line()` keeps what it read |
| `WhatsApp` | `Verify` | `RecvReturnsNone`: the task ends | |
| `Telegram` | `FetchRecent`, `FetchOffset` | `Request`, `GetUpdates` | the request; the offset stays |
| `Zulip` | `Register`, `FetchHistory` | `Request`, `GetEvents` | the request; `last_event_id` stays |
| `Matrix` | `Connect` (first sync) | `Request`, `Sync` | the request; the token stays |
| `Fs` | `Watch`, `FinishFirstRead` | `TakeEvent`, `FinishRead` | the event taken is gone; the read goes on for nobody |
| `Sqlite` | `ConnectSigns`, `ConnectReads` | `Wake`, `Signs`, `Reads` | the sleep starts over |
| `Github`, `Maillist` | `Connect` | `Wake`, `Fetch` | the sleep starts over |

`LongPoll` adds what the server may forget (`forgotten`, told with each request)
and `Restart`: the daemon is killed and connects anew, the server keeps what it
was not told to forget. `Matrix` also models sending: the transaction counter,
the PUT that arrives or does not, and the homeserver's memory of used ids.
`Fs!FinishRead` may show some parts of the directory newer than others.
`Sqlite` compares `(count, max rowid)`, `Github` the number of comments and when
the newest was made, in seconds, `Maillist` the number of campaigns.

`SqliteChat` starts with a table that exists or does not (`connect()` makes it),
keyed by the default's two columns or by one INTEGER column, which SQLite makes the
rowid itself. Any process may insert or replace, the connector's own `execute` too.
`Maillist` sends with two requests, one that creates a campaign and one that starts
it; either may fail with or without having arrived. `Dates` has the mailing list's
sum over years and months and GitHub's eras of 400 years, with what follows the
date: a fraction, `Z` or an offset.

### `Sessions` and the examples

`step[c]` is where handler `c` stands between its awaits. `Send` is
`sink.send(..).await?`: it writes, or waits in `writing[c]` while the client does
not read, keeping the guard in `holds[c]`, or fails when the client has gone.
Failing leaves the handler (`failed`) with whatever cleanup comes after it undone.
The broadcast channel is `aired`, the newest `Capacity` broadcasts, with a position
per receiver (`behind`); `Relay` is `Err(Lagged)` too, which moves a receiver to the
oldest broadcast there is. `client[c]` is `interconnect-client`'s `Connection`
and its user; it reads nothing while its own write waits. A socket holds `Buffer`
messages each way.

`Chat` adds the users' map and joins and leaves, `Webchat` its two critical
sections (`AddMessage`, `BroadcastSnapshot`), `Process` the tasks around the
subprocess (`LogsLine`, `NoticesExit`, `FeedsStdin`, `Broadcasts`) and what
`process-client` prints (`Reads`).

### `Game`

`player[z]` is the map of players of zone `z`, by identity; `step`, `zone`, `who`
the connections; `passport[p]` the last passport the client of `p` got, which it
can show again (`Arrive`). `HangUp` removes the player of that identity, whoever
plays it; `WriteFails` returns without removing anyone.

### `Identity`, `Forum`, `Microblog`

A string is a sequence of characters, of which only the colon matters: `Written` is
`Display`, `Parse` is `FromStr`. A thread and a reply are their ids. `CreateThread`,
`Reply` and a page (`GetPage`) are handlers, each under one guard; `StartWalk` to
`EndWalk` is a client that asks for page after page until the `total` it was told is
reached. `PerPage` is `min(100)`, `Page` the `u32` arithmetic with `skip` and
`take`. In `Microblog`, `Timeline` is the newest 20, and `Fetch` a reader that takes
the ids it never had, below the oldest of the timeline, for posts it has missed.

### What the models leave out of the code they stand for

* Contents of messages, names, texts. Formatting never decides what happens, with
  one exception, which is modelled: `Decode`.
* Slack's redelivery of envelopes that were not acknowledged. What the platform
  servers do with offsets, queues, tokens and transaction ids is external: it is
  modelled as the connectors rely on it.
* `process`: stdout and stderr are one sequence, the order in which lines are
  logged. `chat`: the user list and `seq` of a snapshot.
* `sqlite`: views, whose signature is always (0, 0), so that only the first
  snapshot is ever shown. `github`: title, state and reactions. Up to three
  comments fall in one second.
* `game`: positions, reach, item ids, ticks, health. An intent may mean any item of
  its kind. Torches and gems are like no potion and no weapon.
* `irc`: the registration up to the welcome line is one step.
* `forum`: a page of 0, which the handler computes with `page - 1` in `u32`: the
  request panics in a debug build and is an empty page in a release build. Neither
  changes state.

## 3. What is checked

| Run | Instance | Properties |
|---|---|---|
| `daemon` | 1 room, 2 processes, 3 snapshots, 2 sends | `SnapshotsStayInOrder`: log and channel have what was emitted, batches are consecutive. `EachMessageInOnePlace`: below the cursor, a message is held by one connection, read by one process or lost with one. `WaitingReaderGetsNews`. `EachIntentInOnePlace`: queued, handed over in order, or dropped. `ImplementsMailbox`: refinement |
| `daemon_liveness` | 1 room, a `watch` and another process, 2 snapshots, 1 send | `EachMessageRunsOnce`: each message that was read was printed, run, is to be run or was abandoned, by one process, once and in order. `NextMessageReachesAReader`, `RequestsAreAnswered`, `AcceptedIntentsAreSettled`. `WatchedMessagesAreSettled`: while somebody watches, what is logged leaves the processes' hands |
| `streams` | Slack, Discord, IRC, Signal, WhatsApp; 4 posts, 2 PINGs | `StreamsLoseOnlyWhatTheyMay`: not shown means too old, on its way, in hand, or (Slack) in hand of a dropped `recv()`, or (Discord) posted between history and session. `PingsAreAccountedFor`. `StreamsShowInOrder`. `ArrivalsAreHandled`: however many intents come |
| `polls` | Telegram, Zulip, Matrix, fs, SQLite, its chat mode, GitHub, mailing list; 4 posts, 1 restart, 3 writes to a chat log, 2 sends | `PollsLoseOnlyWhatTheyMay`: what the server may forget, or a directory's change that was taken, is accounted for. `PollsShowInOrder`. `GrowthIsNeverHidden`: what is only added to and looks the same is the same. `SendsAreAccountedFor`: transaction ids, drafts and campaigns. `DatesAreDays`. `FsNeverGoesBack`. `ChangesAreShown`: however many intents come. `PostsAreHandled`: once intents stop |
| `rooms` | chat, webchat, process; 2 connections (process: 1), 3 requests | `ChatKnowsItsUsers`, `PrintsEachLineOnce`, `DrainedClientsAreUpToDate`, `ClientsNeverGoBack`, `ClientsCatchUp` |
| `game` | a zone with weapons and one without, 1 identity, 3 connections, 2 imported items | `ItemsComeFromSomewhere`, `NoWeaponsAreBroughtIn`, `PlayersHaveConnections`, `ConnectionsHavePlayers` |
| `boards` | the forum: 2 names, 5 threads and replies, pages of 1 or 2; the microblog: 6 posts, a timeline of 2 | `PostsAreAccountedFor`: counters, and profiles under written names. `WalksMissNothing`. `GapsAreNoticed` |
| `daemon_missed_notify`, `daemon_decode`, `zulip_overwritten`, `matrix_txn`, `rooms_prints` | small | claims of comments and docs that the code does not keep: section 5 |

Each passing run but `daemon_liveness` also has its family's `TypeOK`; that of
`Watch` is proved. For each property "mutants"
names a plausible bug of the code that violates it under the same configuration.

*Exceptions.* A property that says "only" has the exact set of what may be lost:
`TooOld` (older than what the history has), `cancelled` (in hand of a dropped
`recv()`), `skipped`, `crowded`, `overwritten`, `unseen`, `torn`, `inPlace` (a row
replaced under its own rowid), `abandoned` (with a `watch` that ended). They are the
divergences section 5 lists without a run, and nothing else is excepted.

### Bounds

* Daemon: with two processes one drains while the other is woken for nothing, and
  a killed process's slot is used again; three snapshots let a batch of two follow
  one of one. Rooms share nothing but the mutex and a request names one room; two
  rooms are part of the proofs, not of the runs.
* Connectors: `Cap` two or three, so that four posts overflow the window; history
  shorter than what was posted; `AnswerLimit` above `Cap`, so that a batch crowds
  itself out; `TimelineLimit` below what a sync may have. One intent waits at a
  time, but as many come as like: only `MaxQueued` is bounded, not their number.
  One restart is the least with which positions and transaction ids repeat.
  A chat log has `MaxWrites` three: a row, one that replaces it, one after that.
  Two sends to the list let a failed one be followed by another.
* `Dates`: all days of years around the leap years, the century that is one (2000)
  and the one that is not (2100); timestamps are compared, not stored, so that no
  width matters.
* Boards: five writes let two be made between two pages of two. `U32` is 16 where
  the code has 2^32, and products of page and size stay below either; the real cap
  of 100 and length of 20 are `PerPageCap` and `TimelineLength`, both 2.
* Rooms: a channel of two overflows with three requests, a socket of one message
  is full at once. Process has one client, which suffices as its clients only meet
  in the room's lock, kept by chat's too.
* Game: three connections let a passport be shown twice after the origin was left,
  or two play one identity while a third hangs up.

*Deadlock* is not checked anywhere: clients may all be gone, connectors dead,
and the bounds end a behaviour too. Everyone waiting on everyone is what
`ClientsCatchUp` and `RequestsAreAnswered` are about.

### Fairness

Weak fairness for what the tokio runtime runs: handlers, connection tasks, logging
tasks, the start-up loop. Strong fairness for a branch of a connector's `select!`
that is ready whenever it is polled and that intents may win over: tokio's
`select!` starts with a branch at random. A timer or a long poll is not ready when
it is polled, and each intent starts it anew; those branches have weak fairness,
and what depends on them is claimed only once intents stop (`IntentsStop`, in
`PostsAreHandled`; `ChangesAreShown`, of a directory's events, needs no such
assumption). The
hazard is real: an intent every two seconds keeps SQLite's poll from ever running.

A `watch` has weak fairness for its loop and for the end of its command
(`WatchRuns`), which are the user's, but none for being started again or for not
failing: `WatchedMessagesAreSettled` excepts a process that ended, and one left
parked for ever, which divergence 1 of section 5 makes possible.

Platforms are assumed to answer (`PlatformsAnswer` in `Daemon`, `FairSpec`
elsewhere); the code has no timeouts of its own. Clients in `Rooms` are assumed to
read, as those of the repository do in every state but one: a write of their own
that waits. `Stuck` is that state with the handler writing too; both then wait for
ever, and with a guard kept so does everyone. `ClientsCatchUp` excepts it and
nothing else. Nothing is assumed of users, of what is posted, or of a task's end.

## 4. What is proved

`DaemonProofs`, for any sets of rooms and processes and any bounds
(`ConstantsAssumption`: `NoRoom` is not a room, `Ops` are operations of the
protocol, the bounds are numbers):

* `TypeCorrect`: `Spec => []TypeOK`. Besides the types it says that a connection
  that waits does so on a configured room, so `guard[&room]` cannot panic.
* `RoomsAreMailboxes`: `Spec => ImplementsMailbox`. Every step is a step of each
  room's mailbox or leaves that mailbox unchanged.
* `OneReaderPerMessage`: `Spec => []EachMessageInOnePlace`.
* `OrderIsKept`: `Spec => []SnapshotsStayInOrder`; `WaitersGetNews`: `Spec =>
  []WaitingReaderGetsNews`; `IntentsAreAccountedFor`: `Spec => []EachIntentInOnePlace`.

So every safety property of the run `daemon` is proved.

`WatchProofs`, for any processes and any of them that watch
(`WatchersAssumption`: watchers are processes, and a recv that waits is among `Ops`
if there are any):

* `WatchImplementsDaemon`: `WatchSpec => Spec`, hence everything above holds with
  `watch` processes that fail, are killed and are started again.
* `WatchTypes`: `WatchSpec => []WatchTypeOK`.
* `CommandsRunOnce`: `WatchSpec => []EachMessageRunsOnce`.

`GameProofs`, for any zones, of which there are finitely many (`GameAssumption`),
armed zones, identities and connections (`MaxImport` bounds only what comes in with
passports):

* `GameTypes`: `Spec => []TypeOK`, hence no inventory goes below zero whatever
  connections share it.
* `PlayersAreLinked`, `ConnectionsAreLinked`: `Spec => []PlayersHaveConnections`,
  `Spec => []ConnectionsHavePlayers`.
* `ItemsAreNotMade`, `WeaponsStayOut`: `Spec => []ItemsComeFromSomewhere`,
  `Spec => []NoWeaponsAreBroughtIn`.

*Argument.* `IndInv` is `TypeOK` with two facts neither of the others says:
`InOrder(r)`, the log followed by the push channel counts 1, 2, ..., and the
cursor is within the log; and `NothingHeldEarly`, a connection that is not
answering holds no batch. They are needed because `Take` is allowed only to a
reader whose hands are empty, and because a batch is a set of new numbers only if
the log counts. `StepMaps` takes the actions one by one; a step that drains is
`Take`, logging is `Put`, the end of a connection is `Finish` or `Vanish`, all
others leave the mailbox alone. The partition is then shown for the mailbox's
steps (`TakeSplits`, `SettleSplits`), not for the daemon's.

Answers need an invariant of their own, `GoodAnswer(c)`: the batch is consecutive,
and not empty if its reader waited. It is inductive with `IndInv`, as a drain
answers with the whole unread slice (`UnreadIds`) and a waiting one only if there
is any (`DrainAnswers`). Intents need one more fact, that the task of a dead room
has no queue (`IntentsAccounted`): an intent refused by it is newer than all
others. The lemmas `AccountAppend`, `AccountTake`, `AccountRefused` and `AccountEnd`
are the four ways a set of intents changes.

For `EachMessageRunsOnce` the invariant `WatchInv` needs, beside it, that a watch's
connection asks for its room (`OwnRequest`) and that what it is about to be handed
comes after what it ran the command for (`ComesAfter`). The latter rests on the
mailbox: `HeldAfter`, a step leaves a connection's hands as they are, empties them
or fills them with all that is unread, and `ReadIsOver`, what was read lies below
the cursor and with nobody. Three facts of the daemon are added, each with a proof of
its own: a batch is sorted and of a configured room (`BatchesAreGood`), nobody who
has gone is written to (`GoneAreNotAnswered`), and only messages decode as messages
(`DecodesAsMessages`). `OnceTaken`, `OnceRun`, `OnceAbandoned` and `OncePrinted` are
the four ways messages move. In the game, the two link invariants
are inductive once every connection that was made has a zone and an identity
(`Placed`); `AddToWorld` and `RemoveFromWorld` say what a map of players becomes. For
the items, each step changes one zone and brings it at most what a passport had
(`StepBrings`); `CarryChanges` and `ThereGrows` carry that over to the sums over
players and zones.

`StreamsProofs`, for any `Cap`, history limit and bounds, and any of the five
connectors (`RoomAssumption`: `Cap` is positive and a history no longer, the bounds
are numbers):

* `StreamTypes`: `Spec => []TypeOK`.
* `OnlyTheLossesNamed`: `Spec => []StreamsLoseOnlyWhatTheyMay`.
* `WindowsInOrder`: `Spec => []StreamsShowInOrder`.
* `PingsAnsweredOnce`: `Spec => []PingsAreAccountedFor`.

*Argument.* For Discord, IRC and Signal it is `Feed`: what is on its way to the
connector is in the order of posting and after all its window has. Slack opens the
socket before it fetches the history, so that the socket may bring what the window
has already; `SlackOrder` says of the window that it has nothing newer than the
history but what came over the socket before `hand` and the rest of it. That nothing
is lost at the seam needs `SlackConnects`: while `connect()` runs, the socket holds
all that was posted since it was opened.

`PollsProofs`, for any of the eight connectors, any `Cap`, page, answer and history
limits and bounds (`RoomAssumption`, `LongPollAssumption`, `PollsAssumption`):

* `PollConnectorTypes`: `Spec => []TypeOK`.
* `PollsLoseNothingElse`: `Spec => []PollsLoseOnlyWhatTheyMay`.
* `PollWindowsInOrder`: `Spec => []PollsShowInOrder`.
* `UnchangedLooksAreUnchanged`: `Spec => []GrowthIsNeverHidden`.
* `SendsComeToOneMessage`: `Spec => []SendsAreAccountedFor`.
* `SnapshotsOnlyGoForward`: `Spec => FsNeverGoesBack`.
* `TimestampsAreDays`: `Spec => []DatesAreDays`, for any years from 1970 on
  (`YearsAssumption`).

*Argument.* Of a connector that long-polls, whatever is before its position is shown
or in the set that names its loss, and its window ends there. For Telegram that is
not enough: a restart goes back to what the server was told to forget, so that the
same is said of `forgotten`, and of `recent`, which `connect()` holds between its two
requests. For Zulip the history may hold what the queue brings too, hence `RisesBut`:
in order, but for what was posted between the two. For Matrix, `TxnsAreFresh` says
that all ids the homeserver remembers are below the counter, until a restart.

Of a connector that looks, what it remembers of the last look is never ahead of what
it showed. A directory's read may have some parts newer than when it began, so the
invariant bounds what was shown by where the running read began (`readFrom`), and
the event that triggered it too. For SQLite, `SignedInTime`: the
signature was taken before the rows were read and so its maximum is no further than
theirs; equal signatures of a growing table then mean equal rows. In a chat log
whose key is the rowid the maximum need not grow; there no row goes
(`ReplacedInPlace`), so that equal counts mean equal keys. Of the listings,
`sawRows` is the page some number of posts had; two such pages that look alike are
the same unless full. The mailing list's counters need `SendsInv`, which says what
each place of `send()` has made so far. For timestamps both algorithms are shown to
come to `DayNumber`, 365 days for a year and one for each leap year before: GitHub's by
arithmetic, the mailing list's by induction over years and months.

`RoomsProofs`, for any connections, requests, lines, windows, channel and socket
capacities, and any of the three programs (`SessionAssumption`,
`ExampleAssumption`: capacities and windows are positive, a snapshot shows no more
than is kept, the bounds numbers):

* `RoomTypes`: `Spec => []TypeOK`.
* `UsersAreKnown`: `Spec => []ChatKnowsItsUsers`.
* `LinesArePrintedOnce`: `Spec => []PrintsEachLineOnce`.
* `DrainedKnowTheRoom`: `Spec => []DrainedClientsAreUpToDate`.
* `StatesComeInOrder`: `Spec => ClientsNeverGoBack`.

*Argument.* The messages a client is going to get stand in a line: what it heard
last, its socket, what its handler is writing, the broadcasts it is behind. Along it
no snapshot is older than one before (`Line`, `Pending`), and it ends with the last
snapshot of the channel that came after it subscribed (`UpToDate`). Each step moves a
message along, puts a newer one at the end, or drops broadcasts that a receiver is
too far behind for, all of which came before the channel's last. What that last
snapshot says of the room differs by program: chat broadcasts
under the lock under which it changes the room, so it is
the room as it is (`AiredLast`); webchat does it in a second critical section, so
only when nobody is between the two (`Quiet`); process when no update is waiting.
What `process-client` prints is tied to what it heard (`Prints`): it counts lines of
the last window, and a window that is not full yet has all there are.

`BoardsProofs`, for any authors, page sizes, timeline lengths and bounds
(`ForumAssumption`, `MicroblogAssumption`: names are strings, page numbers asked for
are positive, the `u32` is wide enough for the pages there are):

* `BoardTypes`: `Spec => []TypeOK`.
* `PostsAreCounted`: `Spec => []PostsAreAccountedFor`.
* `NothingIsPagedOver`: `Spec => []WalksMissNothing`.
* `MissedPostsAreKnown`: `Spec => []GapsAreNoticed`.
* `ParseUndoesWritten`: `Parse` gives back what `Written` was given, for all
  characters, and any payload, colons included.

*Argument.* Ids are places (`WrittenInv`), so the list of threads is the numbers
backwards and new ones move the others to later pages. A walk that has had `Offset`
items of it has all it was begun for but the `Len(threads) - Offset` oldest
(`WalkInv`); a list of replies only grows at its end, and what was seen is a prefix.
The microblog's ids leave no gaps, so that a reader who finds an id that does not
follow knows how many are missing (`BlogInv`).

`SequenceLemmas` is what these share. `Newest(w \o ns, Cap)`, which `PushAll` is,
is what pushing one by one comes to (`PushedOneByOne` is the step, `LastOnesAre` the
start). `Sorted`, defined by a choice, exists for every finite set (`Enumerated`), by
induction over its size in the form the provers can use: a set of numbers that
has 0 and with each number the next has all (`Induction`). So do sums: the fold behind
`SumFunction` and `MapThenSumSet` takes elements in an order nobody knows, and
`TotalWithout` says that a sum over a finite set is any one part and the sum of the
others.

*Only model-checked.* Liveness under fairness, which is out of the prover's reach:
`NextMessageReachesAReader`, `RequestsAreAnswered`, `AcceptedIntentsAreSettled`,
`WatchedMessagesAreSettled`, `ArrivalsAreHandled`, `ChangesAreShown`,
`PostsAreHandled`, `ClientsCatchUp`.

The runs that expect a violation refute claims of comments and have nothing to prove.

## 5. Where code and documentation disagree

With a run that shows it:

1. `daemon.rs:233` says that no notify is missed between drain and wait. The
   drain's guard is released, a second critical section clones the `Notify`, and
   `notified()` comes after that: a snapshot logged in between wakes nobody, and
   the reader waits with an unread message until the next one
   (`daemon_missed_notify`). It catches up then, which is what
   `NextMessageReachesAReader` shows.
2. `Response` is untagged and `Sent { ok }` comes before `State`, `Rooms` and
   `Error`: the CLI takes each of those for `Sent` (`daemon_decode`).
3. `zulip/src/transport.rs:3` says events become snapshots. Of several messages in
   one answer only the last does (`zulip_overwritten`).
4. `matrix/src/transport.rs:27` calls the transaction counter monotonic. It starts
   over with each connect, and the homeserver takes the first sends for retries
   (`matrix_txn`).
5. `process/src/client.rs:48` counts lines to print only new ones. Once the window
   is full its length no longer changes and nothing is printed any more
   (`rooms_prints`).

Without a run of its own, being an exception some property names:

* `daemon.rs:178`: the cursor moves before the response is written; the batch of a
  killed process is delivered to nobody (`lost`).
* `daemon.rs:204`: the handle outlives its task; `sent` is answered for intents
  nobody takes (`dropped`).
* `daemon.rs:116`: until every room has connected no command completes, which
  `docs/daemon.md:5` says takes milliseconds (`PlatformsAnswer`).
* `slack/src/transport.rs:171`: acknowledged, then dropped (`cancelled`); what was
  posted while `connect()` ran comes twice (`InOrderAfterConnect`, Zulip alike).
* `telegram/src/connector.rs:54`: an update between the two requests is passed
  over (`skipped`); when the second fails history is shown again (`NoReplay`).
* `telegram/src/transport.rs:147`: a batch longer than the window crowds itself
  out (`crowded`). `matrix/src/transport.rs:57`: a long timeline is cut (`unseen`).
* `discord/src/connector.rs:55`: posted between history and session.
* `irc/src/transport.rs:88`: a PONG cut off (`torn`).
* `fs/src/transport.rs:139`: an event taken, its read dropped (`cancelled`).
* `sqlite/src/transport.rs:205`: updates, and replaced last rows, look unchanged
  (`onlyInserts`).
* `sqlite/src/chat.rs:350`: `INSERT OR REPLACE` into a log whose configured key is
  one INTEGER column, and so the rowid, leaves count and maximum as they were: the
  row that took the other's place is not shown (`inPlace`). The default key has
  two columns and is not concerned. `:199` leaves key columns without `NOT NULL`,
  and NULLs agree with no other: what `chat.rs` calls a key then replaces nothing.
* `cli_main.rs:145`: a command that cannot be started ends `watch` with the rest of
  a batch the daemon has given up (`abandoned`).
* `maillist/src/transport.rs:150`: a send that fails between its two requests
  leaves a draft, though nothing says that it was not sent (`drafts`).
* `forum/src/server.rs:135`: a page may repeat threads of the one before, as each
  new thread moves the others (`WalksMissNothing`: perhaps twice).
* `whatsapp/src/transport.rs:67` calls the connector send-only; the room ends at
  once, and nothing can be sent through it.
* `github/src/transport.rs:150` says all comments are fetched; it is the first
  100. `maillist`: a full page of 50 hides new campaigns.
* `chat/src/server.rs:326`: a failed write leaves its user in the room; `:250`: the
  room's lock is kept while a write waits (`Stuck`).
* `docs/design-decisions.md:124` has one authority for each piece of content; after
  a transfer of the game the player is in both worlds until the first connection
  ends (`PlayersHaveConnections`), and its items count twice
  (`ItemsComeFromSomewhere`, `imported`).

## 6. What is not modelled

* `interconnect-core` but for identities: type definitions and traits. The wire
  messages are steps of `Sessions`.
* The game's ticks, item ids, positions and health; so the hazard at
  `game/src/server.rs:282` has no property. An item that was dropped has the tick as
  its id, which another may have; who asks for the second by id gets the first or,
  if that is far away, nothing. The model has "nothing" for every intent, so no
  property of it is weaker for that.
* `forum`: `import`, which changes nothing. `microblog`: the feed of another server,
  a stub. Both lose everything with their process and have nothing to recover.
* The issue's title, state and reactions on GitHub, which only the connector's own
  intents change.
* JSON, base64 and the mapping of columns to fields: data, of which no decision
  depends but `Decode`.
* Configuration, arguments, the `init` preset, hooks and docs: parsing and static
  text, no state.
* A restart of the daemon as its readers see it: nothing is persisted, a restart is
  `Init`. As platforms see it, it is `LongPoll!Restart`.
* Malformed and empty request lines: answered or skipped without touching state;
  the CLI cannot write them.
* Two rooms with one name in the configuration: they collapse in the map before
  the daemon starts.

## 7. Plan

Done: the daemon with its abstract mailbox, `watch`, all connectors, all example
authorities, identities and timestamps. Every safety property of every passing run
is proved.

What would add most:

1. An abstract specification of a connector, a feed from which what is lost is
   named, and each connector as an implementation of it: `StreamsLoseOnlyWhatTheyMay`
   and `PollsLoseOnlyWhatTheyMay` are its safety part.
2. A refinement of `Watch`: a queue of messages with consumers that may die, which
   `EachMessageRunsOnce` states as an invariant.
3. The game's item ids and positions.
