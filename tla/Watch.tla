-------------------------------- MODULE Watch --------------------------------
(***************************************************************************)
(* `interconnect watch <room> --exec <command>` beside the daemon: some of *)
(* the CLI processes loop over recv, and run the command once for each     *)
(* message of the answer.  Between the answer and the command a message is *)
(* nowhere but in the process, which may fail, be killed and be started    *)
(* again.  The other processes are those of the module Daemon.             *)
(***************************************************************************)
EXTENDS Daemon

CONSTANT Watchers   \* the processes that are `watch`

\* `watch` makes the request of a recv that waits.
ASSUME WatchersAssumption ==
  /\ Watchers \subseteq Clients
  /\ Watchers # {} => "recv_wait" \in Ops

VARIABLES
  watches,    \* the room each was started for
  loop,       \* where each stands
  batch,      \* messages of the answer that are still to be handled
  \* history
  ran,        \* messages the command was run for, oldest first
  abandoned,  \* messages that a watch received and never ran the command for
  printed     \* messages the other processes received

watchVars == <<watches, loop, batch>>
watchHistory == <<ran, abandoned, printed>>
allVars == <<vars, watchVars, watchHistory>>

\* looping: at the recv or between two commands; running: waiting for the
\* command; ended: handle_watch returned an error, or the process was killed.
LoopStates == {"looping", "running", "ended"}

WatchInit ==
  /\ Init
  /\ watches \in [Watchers -> Names]
  /\ loop = [w \in Watchers |-> "looping"]
  /\ batch = [w \in Watchers |-> <<>>]
  /\ ran = [w \in Watchers |-> <<>>]
  /\ abandoned = [w \in Watchers |-> {}]
  /\ printed = [r \in Rooms |-> {}]

-----------------------------------------------------------------------------
\* The top of the loop: a recv that waits.
Ask(w) ==
  /\ loop[w] = "looping"
  /\ batch[w] = <<>>
  /\ Issue(w, "recv_wait", watches[w])
  /\ UNCHANGED <<watchVars, watchHistory>>

\* The answer, or bail!: an error is not told from `sent`, but ends it as well.
GetAnswer(w) ==
  /\ ReadReply(w)
  /\ IF Decode(reply[w].kind) = "messages"
       THEN batch' = [batch EXCEPT ![w] = reply[w].batch] /\ UNCHANGED loop
       ELSE loop' = [loop EXCEPT ![w] = "ended"] /\ UNCHANGED batch
  /\ UNCHANGED <<watches, watchHistory>>

\* Mutant: the command runs for the newest message of the answer first.
RunCommandNewestFirst(w) ==
  LET n == Len(batch[w]) IN
  /\ loop[w] = "looping"
  /\ batch[w] # <<>>
  /\ loop' = [loop EXCEPT ![w] = "running"]
  /\ batch' = [batch EXCEPT ![w] = SubSeq(@, 1, n - 1)]
  /\ ran' = [ran EXCEPT ![w] = Append(@, batch[w][n])]
  /\ UNCHANGED <<vars, watches, abandoned, printed>>

\* sh -c starts with the next message; whether it reads it is not looked at.
RunCommand(w) ==
  /\ loop[w] = "looping"
  /\ batch[w] # <<>>
  /\ loop' = [loop EXCEPT ![w] = "running"]
  /\ batch' = [batch EXCEPT ![w] = Tail(@)]
  /\ ran' = [ran EXCEPT ![w] = Append(@, Head(batch[w]))]
  /\ UNCHANGED <<vars, watches, abandoned, printed>>

\* The command is over, with whatever status.
CommandExits(w) ==
  /\ loop[w] = "running"
  /\ loop' = [loop EXCEPT ![w] = "looping"]
  /\ UNCHANGED <<vars, watches, batch, watchHistory>>

\* What process w has not run the command for is lost with it.
Abandon(w) ==
  /\ loop' = [loop EXCEPT ![w] = "ended"]
  /\ batch' = [batch EXCEPT ![w] = <<>>]
  /\ abandoned' = [abandoned EXCEPT ![w] = @ \cup Range(batch[w])]
  /\ UNCHANGED <<watches, ran, printed>>

\* Mutant: a command that does not start is tried again.
SpawnFailsAndRetries(w) ==
  /\ loop[w] = "looping"
  /\ batch[w] # <<>>
  /\ loop' = [loop EXCEPT ![w] = "running"]
  /\ UNCHANGED <<vars, watches, batch, watchHistory>>

\* spawn() or wait() fails, and the ? after it ends the loop.
SpawnFails(w) ==
  /\ loop[w] = "looping" /\ batch[w] # <<>>
  /\ Abandon(w)
  /\ UNCHANGED vars

WaitFails(w) ==
  /\ loop[w] = "running"
  /\ Abandon(w)
  /\ UNCHANGED vars

\* A process that waits for its answer is killed as any other CLI process is.
WatchKilled(w) ==
  /\ loop[w] # "ended"
  /\ IF client[w] = "waiting" THEN ClientKilled(w) ELSE UNCHANGED vars
  /\ Abandon(w)

\* Somebody starts it again; the daemon goes on from its cursor.
StartAgain(w) ==
  /\ loop[w] = "ended"
  /\ client[w] = "idle"
  /\ loop' = [loop EXCEPT ![w] = "looping"]
  /\ UNCHANGED <<vars, watches, batch, watchHistory>>

-----------------------------------------------------------------------------
\* recv prints what it gets.
OtherReads(c) ==
  /\ ReadReply(c)
  /\ printed' = [r \in Rooms |-> printed[r] \cup (read'[r] \ read[r])]
  /\ UNCHANGED <<watchVars, ran, abandoned>>

OtherStep(c) ==
  \/ OtherReads(c)
  \/ /\ (\E op \in Ops, name \in Names : Issue(c, op, name)) \/ ClientKilled(c)
     /\ UNCHANGED <<watchVars, watchHistory>>

DaemonStep ==
  /\ Boot \/ (\E r \in Rooms : RoomStep(r)) \/ (\E c \in Clients : ServerStep(c))
  /\ UNCHANGED <<watchVars, watchHistory>>

WatchStep(w) ==
  Ask(w) \/ GetAnswer(w) \/ RunCommand(w) \/ CommandExits(w)
    \/ SpawnFails(w) \/ WaitFails(w) \/ WatchKilled(w) \/ StartAgain(w)

WatchNext ==
  \/ DaemonStep
  \/ \E c \in Clients \ Watchers : OtherStep(c)
  \/ \E w \in Watchers : WatchStep(w)

WatchSpec == WatchInit /\ [][WatchNext]_allVars

-----------------------------------------------------------------------------
\* Every variable has its type; a process asks only when it has nothing left.
WatchTypeOK ==
  /\ TypeOK
  /\ watches \in [Watchers -> Names]
  /\ loop \in [Watchers -> LoopStates]
  /\ batch \in [Watchers -> Seq(Nat)]
  /\ ran \in [Watchers -> Seq(Nat)]
  /\ abandoned \in [Watchers -> SUBSET Nat]
  /\ printed \in [Rooms -> SUBSET Nat]
  /\ \A w \in Watchers : client[w] = "waiting" => loop[w] = "looping" /\ batch[w] = <<>>

\* What process w has been given of its room, and who else watches that.
Received(w) == Range(ran[w]) \cup Range(batch[w]) \cup abandoned[w]

WatchersOf(r) == {w \in Watchers : watches[w] = r}

\* Every message that was read from a room was printed, had the command run for
\* it, is about to, or was abandoned by the process that got it, and only one of
\* these, whatever processes share the room and however often they fail or are
\* started again; each runs its commands in the order of the messages.
EachMessageRunsOnce ==
  /\ \A r \in Rooms :
       /\ read[r] = printed[r] \cup UNION {Received(w) : w \in WatchersOf(r)}
       /\ \A w \in WatchersOf(r) : Received(w) \cap printed[r] = {}
       /\ \A v, w \in WatchersOf(r) : v # w => Received(v) \cap Received(w) = {}
  /\ \A w \in Watchers :
       /\ Sorted(ran[w]) /\ Sorted(batch[w])
       /\ \A m \in Range(ran[w]), n \in Range(batch[w]) : m < n
       /\ abandoned[w] \cap (Range(ran[w]) \cup Range(batch[w])) = {}

-----------------------------------------------------------------------------
(* The process goes on while it can, and the command comes to an end; both  *)
(* are the user's, who need not start it again.                             *)
WatchRuns ==
  \A w \in Watchers :
    /\ WF_allVars(Ask(w) \/ GetAnswer(w))
    /\ WF_allVars(RunCommand(w) \/ SpawnFails(w))
    /\ WF_allVars(CommandExits(w) \/ WaitFails(w))

WatchFairSpec == WatchSpec /\ DaemonRuns /\ PlatformsAnswer /\ WatchRuns

\* Message n was handed out, and no process has it before it any more.
Settled(n, r) == n <= cursor[r] /\ \A c \in Clients : n \notin Held(c, r) \cup
                   (IF c \in Watchers THEN Range(batch[c]) ELSE {})

\* While somebody watches a room, a message of its log is settled, unless the
\* process ends or is left waiting for ever: for it was told of the message
\* between its look at the log and its wait.
WatchedMessagesAreSettled ==
  \A w \in Watchers, r \in Rooms : \A n \in 1 .. MaxEmitted :
    (watches[w] = r /\ n <= Len(messages[r])) ~>
       (Settled(n, r) \/ loop[w] = "ended" \/ [](server[w] = "parked"))

=============================================================================
