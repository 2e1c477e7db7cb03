------------------------------- MODULE Polls --------------------------------
(***************************************************************************)
(* A room whose connector asks for what is new.  Telegram, Zulip and       *)
(* Matrix wait for the answer; a directory, an SQLite table, an SQLite     *)
(* chat log, a GitHub issue and a mailing list are looked at when a        *)
(* watcher or a timer says so.  `connector` is the one interconnect.toml   *)
(* names; the variables of the others stay as they are initially.          *)
(***************************************************************************)
EXTENDS LongPoll, Dates

CONSTANTS
  Connectors,  \* the connectors a room may have
  MaxTxns,     \* bound: messages sent over one Matrix connection, or to the list
  MaxWrites    \* bound: what is ever written to a chat log

ASSUME PollsAssumption ==
  /\ Connectors \subseteq {"telegram", "zulip", "matrix", "fs", "sqlite", "sqlite_chat", "github", "maillist"}
  /\ MaxTxns \in Nat
  /\ MaxWrites \in Nat

VARIABLES
  connector,
  recent, offsetAt, skipped, crowded,                                \* Telegram
  registered, fetchedAt, overwritten,                                \* Zulip
  connectedAt, unseen, txnCounter, inFlight, usedTxns, swallowed,    \* Matrix
  watching, events, trigger, readFrom, cancelled,                    \* fs
  rows, poll, sawRows, onlyInserts,                                  \* sqlite, github, maillist
  signature, last,                                                   \* sqlite
  primaryKey, exists, inPlace,                                       \* sqlite's chat mode
  sending, drafts, running, taken, listed, failures                  \* maillist

T == INSTANCE Telegram
Z == INSTANCE Zulip
X == INSTANCE Matrix
F == INSTANCE Fs
Q == INSTANCE Sqlite
C == INSTANCE SqliteChat
H == INSTANCE Github
M == INSTANCE Maillist

telegramVars == <<recent, offsetAt, skipped, crowded>>
zulipVars == <<registered, fetchedAt, overwritten>>
matrixVars == <<connectedAt, unseen, txnCounter, inFlight, usedTxns, swallowed>>
longVars == <<telegramVars, zulipVars, matrixVars>>
fsVars == <<watching, events, trigger, readFrom, cancelled>>
tableVars == <<rows, poll, sawRows, onlyInserts>>
chatVars == <<primaryKey, exists, inPlace>>
sqliteVars == <<signature, last, chatVars>>
mailVars == <<sending, drafts, running, taken, listed, failures>>
lookVars == <<fsVars, tableVars, sqliteVars, mailVars>>
vars == <<taskVars, feedVars, pollVars, connector, longVars, lookVars>>

\* spawn_room: the configuration names the connector; spawn_sqlite: and whether
\* its table is a chat log.
Init ==
  /\ connector \in Connectors
  /\ T!Init /\ Z!Init /\ X!Init
  /\ F!Init /\ M!MailInit
  /\ IF connector = "sqlite_chat"
       THEN C!ChatInit
       ELSE Q!Init /\ primaryKey = <<>> /\ exists = TRUE /\ inPlace = {}

\* A step of a connector that waits for the answer, and of one that looks itself.
LongStep ==
  /\ UNCHANGED lookVars
  /\ \/ connector = "telegram" /\ T!Next /\ UNCHANGED <<zulipVars, matrixVars>>
     \/ connector = "zulip" /\ Z!Next /\ UNCHANGED <<telegramVars, matrixVars>>
     \/ connector = "matrix" /\ X!Next /\ UNCHANGED <<telegramVars, zulipVars>>

LookStep ==
  /\ UNCHANGED <<pollVars, longVars>>
  /\ \/ connector = "fs" /\ F!Next /\ UNCHANGED <<tableVars, sqliteVars, mailVars>>
     \/ connector = "sqlite" /\ Q!Next /\ UNCHANGED <<fsVars, chatVars, mailVars>>
     \/ connector = "sqlite_chat" /\ C!ChatNext /\ UNCHANGED <<fsVars, mailVars>>
     \/ connector = "github" /\ H!Next /\ UNCHANGED <<fsVars, sqliteVars, mailVars>>
     \/ connector = "maillist" /\ M!Next /\ UNCHANGED <<fsVars, sqliteVars>>

Next == UNCHANGED connector /\ (LongStep \/ LookStep)

Spec == Init /\ [][Next]_vars

-----------------------------------------------------------------------------
\* Every variable has its type; a request or a read is under way only inside the
\* select!, and a send only outside of it.
TypeOK ==
  CASE connector = "telegram" -> T!TypeOK
    [] connector = "zulip" -> Z!TypeOK
    [] connector = "matrix" -> X!TypeOK
    [] connector = "fs" -> F!TypeOK
    [] connector = "sqlite" -> Q!TypeOK
    [] connector = "sqlite_chat" -> C!ChatTypeOK
    [] connector = "github" -> H!TypeOK
    [] connector = "maillist" -> M!MailTypeOK

\* What the server was told to forget, or will not be asked for again, was
\* shown, across intents and kills, or is in the set of what the connector
\* loses.  Telegram: passed over while connecting, or crowded out by its own
\* batch.  Zulip: overwritten by a later message of the same answer.  Matrix:
\* left out of a long timeline.  A directory's change: taken by a recv() that
\* an intent dropped.
PollsLoseOnlyWhatTheyMay ==
  /\ connector = "telegram" => T!ForgottenIsAccountedFor
  /\ connector = "zulip" => Z!NothingSlipsThrough
  /\ connector = "matrix" => X!NothingSlipsThrough
  /\ connector = "fs" => F!EachChangeIsFollowedUp

\* Across dropped requests and restarts the window is in order and has nothing
\* twice, save for what Zulip's connect() got both from the history and from the
\* queue, and for a Telegram offset that could not be fetched.
PollsShowInOrder ==
  /\ connector = "telegram" => T!NoReplay
  /\ connector = "zulip" => Z!InOrderAfterConnect
  /\ connector = "matrix" => StrictlyInOrder

\* A later snapshot of the directory never shows an older one, also after
\* dropped reads.
FsNeverGoesBack == [][connector = "fs" => F!LastShown' >= F!LastShown]_vars

\* What is only added to and looks unchanged is unchanged: a table whose
\* signature is the same, comments as many and as new, campaigns as many.  But
\* of a full page of comments or campaigns no new one is seen, and in a chat log
\* keyed by its rowid no replaced row.
GrowthIsNeverHidden ==
  /\ connector = "sqlite" => Q!GrowthIsNeverHidden
  /\ connector = "sqlite_chat" => C!ReplacementIsHiddenOnlyInPlace
  /\ connector = "github" => H!GrowthIsNeverHidden
  /\ connector = "maillist" => M!GrowthIsNeverHidden

\* Matrix sends are taken for retries only after a restart; the mailing list
\* makes one campaign of an intent at most, and leaves a draft only when its
\* send() fails.
SendsAreAccountedFor ==
  /\ connector = "matrix" => X!OneConnectionSwallowsNothing
  /\ connector = "maillist" => M!SendsAreAccountedFor

\* The comments and campaigns of an older date sort first, whichever of the two
\* algorithms reads it: also around the ends of months, leap years and centuries,
\* and for campaigns written down in another time zone.
DatesAreDays == connector \in {"github", "maillist"} => CalendarIsKept

-----------------------------------------------------------------------------
Asks ==
  /\ connector \in {"telegram", "zulip", "matrix"}
  /\ Request
  /\ UNCHANGED <<connector, longVars, lookVars>>

Answers ==
  /\ task = "receiving"
  /\ UNCHANGED connector
  /\ \/ connector = "telegram" /\ T!GetUpdates /\ UNCHANGED <<zulipVars, matrixVars, lookVars>>
     \/ connector = "zulip" /\ Z!GetEvents /\ UNCHANGED <<telegramVars, matrixVars, lookVars>>
     \/ connector = "matrix" /\ X!Sync /\ UNCHANGED <<telegramVars, zulipVars, lookVars>>
     \/ /\ connector = "fs" /\ F!FinishRead
        /\ UNCHANGED <<pollVars, longVars, tableVars, sqliteVars, mailVars>>
     \/ /\ connector = "sqlite" /\ (Q!Wake \/ Q!Signs \/ Q!Reads)
        /\ UNCHANGED <<pollVars, longVars, fsVars, chatVars, mailVars>>
     \/ /\ connector = "sqlite_chat" /\ C!ChatPoll
        /\ UNCHANGED <<pollVars, longVars, fsVars, mailVars>>
     \/ /\ connector = "github" /\ (H!Wake \/ H!Fetch)
        /\ UNCHANGED <<pollVars, longVars, fsVars, sqliteVars, mailVars>>
     \/ /\ connector = "maillist" /\ (M!Fetch \/ (M!Wake /\ UNCHANGED mailVars))
        /\ UNCHANGED <<pollVars, longVars, fsVars, sqliteVars>>

Sent ==
  /\ task = "sending"
  /\ UNCHANGED connector
  /\ CASE connector = "matrix" -> X!MatrixSent /\ UNCHANGED <<telegramVars, zulipVars, lookVars>>
       [] connector = "maillist" -> M!MailSent /\ UNCHANGED <<pollVars, longVars, fsVars, sqliteVars>>
       [] OTHER -> SendReturns /\ UNCHANGED <<pollVars, longVars, lookVars>>

EventTaken ==
  /\ connector = "fs" /\ UNCHANGED connector
  /\ F!TakeEvent
  /\ UNCHANGED <<pollVars, longVars, tableVars, sqliteVars, mailVars>>

(* The runtime polls a task that can run; select! tries an event that is    *)
(* there as often as an intent; a timer fires if it is let; reads, queries, *)
(* requests and intents come to an end.                                    *)
FairSpec == Spec /\ WF_vars(Asks) /\ WF_vars(Answers) /\ WF_vars(Sent) /\ SF_vars(EventTaken)

\* A change of the directory is shown in the end, unless an intent dropped its
\* recv() or the task ends, however many intents there are.
ChangesAreShown ==
  \A n \in 1 .. MaxPosted :
    (connector = "fs" /\ Live /\ n \in Messages) ~> (~Live \/ n <= F!LastShown \/ n \in cancelled)

\* The connector has handled what was posted as number n, or will never see it.
Handled(n) ==
  CASE connector = "telegram" -> n <= Higher(position, forgotten)
    [] connector \in {"zulip", "matrix"} -> n <= position
    [] connector = "fs" -> n <= F!LastShown \/ n \in cancelled
    [] connector \in {"sqlite", "sqlite_chat"} -> n <= Q!LastShown \/ n \in inPlace \/ ~onlyInserts
    [] OTHER -> n \in shown \/ M!Count(sawRows) = Cap \/ ~onlyInserts

\* What is posted while the connector lives is handled once intents stop, unless
\* the task ends or the daemon is killed: one intent every 30 seconds, or every
\* two, and a timer never fires.
PostsAreHandled ==
  IntentsStop => \A n \in 1 .. MaxPosted : (Live /\ n \in Messages) ~> (~Live \/ Handled(n))

-----------------------------------------------------------------------------
(* Claims of comments, for the runs that refute them. *)

\* zulip/transport.rs:3 says that long-poll events become snapshots: each message
\* handled since the queue was registered is in one.
ZulipShowsEachEvent ==
  (connector = "zulip" /\ Live) => Messages \cap registered + 1 .. position \subseteq shown

\* matrix/transport.rs:27 says that transaction ids increase monotonically, so
\* that each one the homeserver answers posts a message.
MatrixSendsPost == connector = "matrix" => swallowed = 0

=============================================================================
