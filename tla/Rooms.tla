------------------------------- MODULE Rooms --------------------------------
(***************************************************************************)
(* A room of the examples with its clients: chat, webchat or process, as   *)
(* the program that was started says.  What they promise their clients is  *)
(* the same, and so is most of what they do; the variables of the others   *)
(* stay as they are initially.                                             *)
(***************************************************************************)
EXTENDS Sessions

CONSTANTS
  Examples,        \* the programs that may have been started
  Keep, Recent,    \* of chat, and Keep of webchat
  MaxLines,        \* of process
  MaxTerminals,    \* bound: connections made to process
  MaxInputs,       \* bound: requests of its clients
  MaxOutput        \* bound: lines the subprocess writes

ASSUME ExampleAssumption ==
  /\ Examples \subseteq {"chat", "webchat", "process"}
  /\ Keep \in Nat \ {0} /\ Recent \in 1 .. Keep
  /\ MaxLines \in Nat \ {0}
  /\ MaxTerminals \in Nat /\ MaxInputs \in 0 .. MaxRequests
  /\ MaxOutput \in Nat

VARIABLES
  example,
  said, messages, users,                                \* chat; webchat
  lines, logged, running, updates, stdin, stdinOpen,
  printed, seen                                         \* process

C == INSTANCE Chat
W == INSTANCE Webchat
P == INSTANCE Process WITH MaxConns <- MaxTerminals, MaxRequests <- MaxInputs

chatVars == <<said, messages, users>>
processVars == <<lines, logged, running, updates, stdin, stdinOpen, printed, seen>>
vars == <<sessionVars, example, chatVars, processVars>>

\* main(): one of the programs.
Init ==
  /\ example \in Examples
  /\ C!Init
  /\ W!Init
  /\ P!Init

\* Action A of one program, which has no variables of the others.
Chat(A) == example = "chat" /\ A /\ UNCHANGED <<example, processVars>>
Webchat(A) == example = "webchat" /\ A /\ UNCHANGED <<example, users, processVars>>
Process(A) == example = "process" /\ A /\ UNCHANGED <<example, chatVars>>

Next == Chat(C!Next) \/ Webchat(W!Next) \/ Process(P!Next)

Spec == Init /\ [][Next]_vars

-----------------------------------------------------------------------------
\* Every variable has its type.
TypeOK ==
  /\ example = "chat" => C!TypeOK
  /\ example = "webchat" => W!TypeOK
  /\ example = "process" => P!TypeOK

\* chat's users are the sessions being served, and those whose handler gave up
\* on a write.
ChatKnowsItsUsers == example = "chat" => C!UsersAreServedOrAbandoned

\* process-client prints in order, nothing twice, and everything until the
\* window of the last lines is full.
PrintsEachLineOnce == example = "process" => P!PrintsEachLineOnce

\* How far a snapshot goes, and how far the room is.
Latest(m) == IF example = "process" THEN P!Latest(m) ELSE C!Latest(m)
Newest == IF example = "process" THEN logged ELSE said

\* No client is shown an older state after a newer one: not between the first
\* snapshot and the broadcasts, not when it lags.
ClientsNeverGoBack ==
  [][\A c \in Conns : Latest(heard[c]) <= Latest(heard'[c])]_vars

\* Nothing is on its way to client c, nor about to be broadcast.
Drained(c) ==
  /\ At(c, "loop") /\ client[c] = "ready"
  /\ behind[c] = 0 /\ outbox[c] = <<>>
  /\ updates = 0 /\ \A d \in Conns : step[d] # "posted"

\* The channel still has a snapshot that was broadcast since c subscribed.
ShownSince(c) == \E i \in 1 .. since[c] : aired[Len(aired) - i + 1].kind = "snapshot"

\* A client that has read everything knows the room as it is, however far it
\* lagged, unless the last change was broadcast between its first snapshot and
\* its subscription, or joins and leaves pushed it out of the channel.
DrainedClientsAreUpToDate ==
  \A c \in Conns : Drained(c) /\ ShownSince(c) =>
    /\ Latest(heard[c]) = Newest
    /\ example = "process" => heard[c].data.running = running

-----------------------------------------------------------------------------
Whichever(A) == A /\ UNCHANGED <<example, chatVars, processVars>>

(* The runtime polls a task that can run, select! does not neglect a branch *)
(* and the lock is granted in turn; requests being bounded, that is no more *)
(* than weak fairness.  The clients read, as those in the repository do in  *)
(* a loop; they need not send, and the subprocess need not do anything.     *)
FairHandler(c) ==
  /\ WF_vars(Whichever(Flush(c)))
  /\ WF_vars(Whichever(Relay(c)))
  /\ WF_vars(Chat(C!HandleIntent(c) \/ C!HandleTransfer(c) \/ C!HandlePing(c)))
  /\ WF_vars(Webchat(W!AddMessage(c) \/ W!HandlePing(c)))
  /\ WF_vars(Webchat(W!BroadcastSnapshot(c)))
  /\ WF_vars(Process(P!TakesInput(c) \/ P!TakesSignal(c) \/ P!RefusesInput(c) \/ P!HandlePing(c)))

FairClient(c) ==
  /\ WF_vars((example # "process" /\ Whichever(ClientReads(c))) \/ Process(P!Reads(c)))
  /\ WF_vars(\E r \in C!Requests : Whichever(ClientSent(c, r)))

FairSpec ==
  /\ Spec
  /\ \A c \in Conns : FairHandler(c) /\ FairClient(c)
  /\ WF_vars(Process(P!Broadcasts))

\* What clients say and the subprocess writes is dealt with and read by all:
\* a client catches up again and again, however slow it is, unless it goes, or
\* the two ends of a socket wait for each other with their writes.
ClientsCatchUp ==
  \A c \in Conns : []<>(~Subscribed(c) \/ Stuck(c) \/ (Drained(c) /\ inbox[c] = <<>>))

-----------------------------------------------------------------------------
\* process/client.rs:43: the client prints the new lines of each snapshot.
PrintsWhatIsNew == example = "process" => P!PrintsWhatIsNew

=============================================================================
