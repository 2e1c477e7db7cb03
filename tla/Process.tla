------------------------------ MODULE Process -------------------------------
(***************************************************************************)
(* examples/process: a subprocess as a room, and process-client.  Tasks    *)
(* log the lines of stdout and stderr and signal update_tx; one task turns *)
(* each signal into a broadcast of the window of the last lines.  The      *)
(* client prints, of each window, what is beyond as many lines as the      *)
(* window before had.                                                      *)
(* A line is its number in the order of logging, in which two tasks may    *)
(* interleave stdout and stderr as they come.                              *)
(***************************************************************************)
EXTENDS Sessions

CONSTANTS
  MaxLines,  \* lines the room keeps, and a snapshot has (200)
  MaxOutput  \* bound: lines the subprocess writes

VARIABLES
  lines,      \* ProcessState.lines
  logged,     \* lines ever logged
  running,    \* ProcessState.running
  updates,    \* signals in update_tx's channel
  stdin,      \* inputs in stdin_tx's channel
  stdinOpen,  \* its receiver is there
  printed,    \* per client: the lines it printed
  seen        \* per client: how many lines the last window had

outputVars == <<lines, logged, running>>
inputVars == <<stdin, stdinOpen>>
printVars == <<printed, seen>>
processVars == <<outputVars, updates, inputVars, printVars>>
vars == <<sessionVars, processVars>>

View(ls, r) == [lines |-> ls, running |-> r]

\* The newest line of snapshot m; 0 when there is none.
Latest(m) == IF m = Nothing \/ m.data.lines = <<>> THEN 0 ELSE Last(m.data.lines)

Init ==
  /\ SessionInit
  /\ lines = <<>>
  /\ logged = 0
  /\ running = TRUE
  /\ updates = 0
  /\ stdin = 0
  /\ stdinOpen = TRUE
  /\ printed = [c \in Conns |-> <<>>]
  /\ seen = [c \in Conns |-> 0]

-----------------------------------------------------------------------------
(* The tasks spawn() and run() start.                                       *)

\* next_line() returned a line of stdout or stderr, which may be long after the
\* subprocess wrote it, and after its exit was noticed.
LogsLine ==
  /\ logged < MaxOutput
  /\ logged' = logged + 1
  /\ lines' = IF Len(lines) = MaxLines THEN Append(Tail(lines), logged + 1) ELSE Append(lines, logged + 1)
  /\ updates' = updates + 1
  /\ UNCHANGED <<sessionVars, running, inputVars, printVars>>

\* child.wait() returned.
NoticesExit ==
  /\ running
  /\ running' = FALSE
  /\ updates' = updates + 1
  /\ UNCHANGED <<sessionVars, lines, logged, inputVars, printVars>>

\* An input is written to stdin; or the subprocess no longer reads it, the task
\* ends and the inputs that wait are dropped.
FeedsStdin ==
  /\ stdin > 0
  /\ \/ stdin' = stdin - 1 /\ UNCHANGED stdinOpen
     \/ stdin' = 0 /\ stdinOpen' = FALSE
  /\ UNCHANGED <<sessionVars, outputVars, updates, printVars>>

\* Mutant: the task ends with the subprocess.
BroadcastsWhileRunning ==
  /\ updates > 0
  /\ running
  /\ CanRead
  /\ updates' = updates - 1
  /\ Air(Snapshot(View(lines, running)))
  /\ UNCHANGED <<handlerVars, inbox, outbox, clientVars, outputVars, inputVars, printVars>>

\* run()'s task: one snapshot for each signal.
Broadcasts ==
  /\ updates > 0
  /\ CanRead
  /\ updates' = updates - 1
  /\ Air(Snapshot(View(lines, running)))
  /\ UNCHANGED <<handlerVars, inbox, outbox, clientVars, outputVars, inputVars, printVars>>

-----------------------------------------------------------------------------
(* The handler.                                                             *)

Joins(c) ==
  /\ Connect(c)
  /\ UNCHANGED processVars

Greets(c) ==
  /\ SendManifest(c, "read", "snapshot")
  /\ UNCHANGED processVars

Shows(c) ==
  /\ SendSnapshot(c, View(lines, running), "read")
  /\ UNCHANGED processVars

\* SendInput goes to stdin's channel.
TakesInput(c) ==
  /\ CanWrite
  /\ running /\ stdinOpen
  /\ Takes(c, "intent")
  /\ stdin' = stdin + 1
  /\ UNCHANGED <<handlerVars, outbox, channelVars, clientVars, outputVars, updates, stdinOpen, printVars>>

\* SendSignal is only logged.
TakesSignal(c) ==
  /\ CanWrite
  /\ running
  /\ Takes(c, "intent")
  /\ UNCHANGED <<handlerVars, outbox, channelVars, clientVars, processVars>>

\* NotRunning or SendFailed: the error is written under the write lock.
RefusesInput(c) ==
  /\ CanWrite
  /\ ~(running /\ stdinOpen)
  /\ Answer(c, "intent", Message("error"), "write")
  /\ UNCHANGED processVars

HandlePing(c) ==
  /\ Answer(c, "ping", Message("pong"), "none")
  /\ UNCHANGED processVars

\* on_disconnect() only logs.
Leaves(c) ==
  /\ At(c, "leaving")
  /\ CanWrite
  /\ Advance(c, "gone")
  /\ UNCHANGED <<writing, holds, inbox, outbox, channelVars, clientVars, processVars>>

-----------------------------------------------------------------------------
(* process-client.                                                          *)

\* lines.iter().skip(n)
Skip(ls, n) == SubSeq(ls, n + 1, Len(ls))

\* Mutant: the first window is printed again with the second.
ReadsUncounted(c) ==
  /\ ClientReads(c)
  /\ LET m == Head(outbox[c]) IN
       IF m.kind = "snapshot"
         THEN /\ printed' = [printed EXCEPT ![c] = @ \o Skip(m.data.lines, seen[c])]
              /\ seen' = [seen EXCEPT ![c] = IF client[c] = "initial" THEN 0 ELSE Len(m.data.lines)]
         ELSE UNCHANGED printVars
  /\ UNCHANGED <<outputVars, updates, inputVars>>

\* Before the first window nothing was seen.
Reads(c) ==
  /\ ClientReads(c)
  /\ LET m == Head(outbox[c]) IN
       IF m.kind = "snapshot"
         THEN /\ printed' = [printed EXCEPT ![c] = @ \o Skip(m.data.lines, seen[c])]
              /\ seen' = [seen EXCEPT ![c] = Len(m.data.lines)]
         ELSE UNCHANGED printVars
  /\ UNCHANGED <<outputVars, updates, inputVars>>

Requests == {"intent", "ping"}

Next ==
  \/ LogsLine
  \/ NoticesExit
  \/ FeedsStdin
  \/ Broadcasts
  \/ \E c \in Conns :
       \/ Shared(c) /\ UNCHANGED processVars
       \/ Joins(c)
       \/ Greets(c)
       \/ Shows(c)
       \/ TakesInput(c)
       \/ TakesSignal(c)
       \/ RefusesInput(c)
       \/ HandlePing(c)
       \/ Leaves(c)
       \/ Reads(c)
       \/ \E r \in Requests : (ClientRequests(c, r) \/ ClientSent(c, r)) /\ UNCHANGED processVars

Spec == Init /\ [][Next]_vars

-----------------------------------------------------------------------------
\* Every variable has its type; the room keeps the newest MaxLines lines.
TypeOK ==
  /\ SessionTypes
  /\ lines = [i \in 1 .. Len(lines) |-> logged - Len(lines) + i]
  /\ Len(lines) <= MaxLines
  /\ updates <= logged + 1
  /\ \A c \in Conns : seen[c] = IF heard[c] = Nothing THEN 0 ELSE Len(heard[c].data.lines)

\* The client prints lines in the order of logging, none twice, and until the
\* window is full it prints all there are.
PrintsEachLineOnce ==
  \A c \in Conns :
    /\ \A i, j \in DOMAIN printed[c] : i < j => printed[c][i] < printed[c][j]
    /\ Latest(heard[c]) <= MaxLines => Len(printed[c]) = Latest(heard[c])

\* process/client.rs:43: the client prints the new lines of each snapshot.
PrintsWhatIsNew ==
  \A c \in Conns : Latest(heard[c]) > 0 => Latest(heard[c]) \in ToSet(printed[c])

=============================================================================
