---------------------------- MODULE WatchProofs -----------------------------
(***************************************************************************)
(* Theorems of module Watch, for any processes and any of them that watch: *)
(* what they do is what CLI processes do, so that the theorems about the   *)
(* daemon hold beside them, and each message of theirs runs the command    *)
(* once.                                                                   *)
(***************************************************************************)
EXTENDS Watch, DaemonProofs

WatchesNames == watches \in [Watchers -> Names]

-----------------------------------------------------------------------------
(* The daemon and its clients *)

\* Nobody changes the room a process was started for.
LEMMA RoomsStay == WatchSpec => []WatchesNames
<1>1. WatchInit => WatchesNames
  BY DEF WatchInit, WatchesNames
<1>2. WatchesNames /\ [WatchNext]_allVars => WatchesNames'
  BY DEF WatchesNames, WatchNext, DaemonStep, OtherStep, OtherReads, WatchStep, Ask, GetAnswer,
     RunCommand, CommandExits, SpawnFails, WaitFails, WatchKilled, StartAgain, Abandon,
     watchVars, watchHistory, allVars
<1> QED
  BY <1>1, <1>2, PTL DEF WatchSpec

\* Each step is one of the daemon's, or one the daemon does not see.
LEMMA WatchStepMaps == WatchesNames /\ [WatchNext]_allVars => [Next]_vars
<1> SUFFICES ASSUME WatchesNames, [WatchNext]_allVars PROVE [Next]_vars
  OBVIOUS
<1>1. CASE UNCHANGED allVars
  BY <1>1 DEF allVars
<1>2. CASE DaemonStep
  BY <1>2 DEF DaemonStep, Next
<1>3. ASSUME NEW c \in Clients \ Watchers, OtherStep(c) PROVE [Next]_vars
  BY <1>3 DEF OtherStep, OtherReads, CliStep, Next
<1>4. ASSUME NEW w \in Watchers, WatchStep(w) PROVE [Next]_vars
  <2>1. w \in Clients /\ "recv_wait" \in Ops /\ watches[w] \in Names
    BY WatchersAssumption DEF WatchesNames
  <2>2. CliStep(w) => [Next]_vars
    BY <2>1 DEF Next
  <2>3. CliStep(w) \/ UNCHANGED vars
    BY <1>4, <2>1
       DEF WatchStep, CliStep, Ask, GetAnswer, RunCommand, CommandExits, SpawnFails, WaitFails,
           WatchKilled, StartAgain
  <2> QED
    BY <2>2, <2>3
<1> QED
  BY <1>1, <1>2, <1>3, <1>4 DEF WatchNext

\* Whatever a watch does between its requests, fails at or is started again
\* after, the daemon and its clients behave as specified: what is proved of
\* them holds with `interconnect watch` beside them.
THEOREM WatchImplementsDaemon == WatchSpec => Spec
<1>1. WatchInit => Init
  BY DEF WatchInit
<1> QED
  BY <1>1, RoomsStay, WatchStepMaps, PTL DEF WatchSpec, Spec

-----------------------------------------------------------------------------
(* Type correctness *)

\* The types of what the module adds.
OwnTypes ==
  /\ WatchesNames
  /\ loop \in [Watchers -> LoopStates]
  /\ batch \in [Watchers -> Seq(Nat)]
  /\ ran \in [Watchers -> Seq(Nat)]
  /\ abandoned \in [Watchers -> SUBSET Nat]
  /\ printed \in [Rooms -> SUBSET Nat]

LEMMA OwnTypesStep == TypeOK /\ TypeOK' /\ OwnTypes /\ [WatchNext]_allVars => OwnTypes'
<1> SUFFICES ASSUME TypeOK, TypeOK', OwnTypes, [WatchNext]_allVars PROVE OwnTypes'
  OBVIOUS
<1> USE DEF OwnTypes, WatchesNames, LoopStates
<1>1. CASE UNCHANGED <<watchVars, watchHistory>>
  BY <1>1 DEF watchVars, watchHistory
<1>2. ASSUME NEW c \in Clients, OtherReads(c) PROVE OwnTypes'
  BY <1>2 DEF OtherReads, watchVars, TypeOK, Types
<1>3. ASSUME NEW w \in Watchers, GetAnswer(w) PROVE OwnTypes'
  <2>1. reply[w].batch \in Seq(Nat)
    BY WatchersAssumption DEF TypeOK, Types, Replies
  <2> QED
    BY <1>3, <2>1 DEF GetAnswer, watchHistory
<1>4. ASSUME NEW w \in Watchers, RunCommand(w) PROVE OwnTypes'
  <2>1. /\ Head(batch[w]) \in Nat /\ Tail(batch[w]) \in Seq(Nat)
        /\ Append(ran[w], Head(batch[w])) \in Seq(Nat)
    BY <1>4, QueueTypes DEF RunCommand
  <2> QED
    BY <1>4, <2>1 DEF RunCommand
<1>5. ASSUME NEW w \in Watchers, Abandon(w) PROVE OwnTypes'
  <2>1. Range(batch[w]) \in SUBSET Nat /\ <<>> \in Seq(Nat)
    BY QueueTypes
  <2> QED
    BY <1>5, <2>1 DEF Abandon
<1>6. ASSUME NEW w \in Watchers, WatchStep(w) PROVE OwnTypes'
  <2>1. CASE CommandExits(w) \/ StartAgain(w)
    BY <2>1 DEF CommandExits, StartAgain, watchHistory
  <2> QED
    BY <1>1, <1>3, <1>4, <1>5, <1>6, <2>1 DEF WatchStep, Ask, SpawnFails, WaitFails, WatchKilled
<1>7. ASSUME NEW c \in Clients, OtherStep(c) PROVE OwnTypes'
  BY <1>1, <1>2, <1>7 DEF OtherStep
<1> QED
  BY <1>1, <1>6, <1>7 DEF WatchNext, DaemonStep, allVars

\* A watch that waits for its answer has handled the one before.
WaitsWithEmptyHands ==
  \A w \in Watchers : client[w] = "waiting" => loop[w] = "looping" /\ batch[w] = <<>>

\* Only a process that asks is waiting afterwards.
LEMMA WaitingBefore ==
  ASSUME TypeOK, NEW w \in Clients,
         \/ DaemonStep
         \/ \E c \in Clients : ReadReply(c) \/ ClientKilled(c)
         \/ \E c \in Clients \ {w} : \E op, name : Issue(c, op, name)
         \/ UNCHANGED vars
  PROVE  client'[w] = "waiting" => client[w] = "waiting"
<1> USE DEF TypeOK, Types
<1>1. CASE UNCHANGED client
  BY <1>1
<1>2. CASE UNCHANGED vars
  BY <1>1, <1>2 DEF vars, connVars
<1>3. ASSUME NEW c \in Clients, ReadReply(c) \/ ClientKilled(c)
      PROVE  client'[w] = "waiting" => client[w] = "waiting"
  BY <1>3 DEF ReadReply, ClientKilled, Close
<1>4. ASSUME NEW c \in Clients \ {w}, NEW op, NEW name, Issue(c, op, name)
      PROVE  client'[w] = "waiting" => client[w] = "waiting"
  BY <1>4 DEF Issue
<1>5. CASE Boot
  BY <1>1, <1>5
     DEF Boot, StartRoom, ConnectFails, ConnectSucceeds, StoreHandle, StartAccepting, connVars
<1>6. ASSUME NEW r \in Rooms, RoomStep(r) PROVE UNCHANGED client
  BY <1>6 DEF RoomStep, EmitSnapshot, ForwardIntent, DiscardIntent, SendReturns, TaskEnds,
              PushMessage, connVars
<1>7. ASSUME NEW c \in Clients, ServerStep(c)
      PROVE  client'[w] = "waiting" => client[w] = "waiting"
  <2>1. CASE WriteReply(c)
    BY <2>1 DEF WriteReply, Close
  <2> QED
    BY <1>1, <1>7, <2>1 DEF ServerStep, Accept, ServeQuery, ServeSend, ServeRecv, CloneNotify,
                            Park, Recheck, DrainOr
<1> QED
  BY <1>1, <1>2, <1>3, <1>4, <1>5, <1>6, <1>7 DEF DaemonStep

LEMMA WaitsStep == TypeOK /\ OwnTypes /\ WaitsWithEmptyHands /\ [WatchNext]_allVars => WaitsWithEmptyHands'
<1> SUFFICES ASSUME TypeOK, OwnTypes, WaitsWithEmptyHands, [WatchNext]_allVars,
                    NEW w \in Watchers, client'[w] = "waiting"
             PROVE  loop'[w] = "looping" /\ batch'[w] = <<>>
  BY DEF WaitsWithEmptyHands
<1> DEFINE Goal == loop'[w] = "looping" /\ batch'[w] = <<>>
<1> USE DEF WaitsWithEmptyHands, OwnTypes
<1>w. w \in Clients
  BY WatchersAssumption
<1>1. CASE UNCHANGED watchVars /\ (client'[w] = "waiting" => client[w] = "waiting")
  BY <1>1 DEF watchVars
<1>2. CASE DaemonStep
  BY <1>1, <1>2, <1>w, WaitingBefore DEF DaemonStep
<1>3. ASSUME NEW c \in Clients \ Watchers, OtherStep(c) PROVE Goal
  <2>1. \/ ReadReply(c) \/ ClientKilled(c)
        \/ \E op, name : Issue(c, op, name)
    BY <1>3 DEF OtherStep, OtherReads
  <2>2. UNCHANGED watchVars
    BY <1>3 DEF OtherStep, OtherReads
  <2> QED
    BY <1>1, <1>w, <2>1, <2>2, WaitingBefore
<1>4. ASSUME NEW v \in Watchers, WatchStep(v) PROVE Goal
  <2>v. v \in Clients
    BY WatchersAssumption
  <2>1. CASE Ask(v)
    <3>1. Issue(v, "recv_wait", watches[v]) /\ UNCHANGED watchVars
      BY <2>1 DEF Ask
    <3>2. CASE v = w
      BY <2>1, <3>2 DEF Ask, watchVars
    <3>3. CASE v # w
      BY <1>1, <1>w, <2>v, <3>1, <3>3, WaitingBefore
    <3> QED
      BY <3>2, <3>3
  <2>2. CASE GetAnswer(v)
    <3>1. client' = [client EXCEPT ![v] = "idle"] /\ v # w
      BY <1>w, <2>2, <2>v DEF GetAnswer, ReadReply, Close, TypeOK, Types
    <3> QED
      BY <2>2, <3>1 DEF GetAnswer
  <2>3. CASE RunCommand(v) \/ CommandExits(v) \/ SpawnFails(v) \/ WaitFails(v) \/ StartAgain(v)
    <3>1. UNCHANGED client
      BY <2>3 DEF RunCommand, CommandExits, SpawnFails, WaitFails, StartAgain, vars, connVars
    <3>2. client[w] = "waiting" /\ loop[w] = "looping" /\ batch[w] = <<>>
      BY <3>1
    <3>3. v # w
      BY <2>3, <3>1, <3>2, <1>w
         DEF RunCommand, CommandExits, SpawnFails, WaitFails, StartAgain, TypeOK, Types
    <3> QED
      BY <2>3, <3>2, <3>3
         DEF RunCommand, CommandExits, SpawnFails, WaitFails, StartAgain, Abandon, watchHistory
  <2>4. CASE WatchKilled(v)
    <3>1. client'[v] # "waiting"
      BY <2>4, <2>v DEF WatchKilled, ClientKilled, Close, TypeOK, Types, vars, connVars
    <3>2. client[w] = "waiting"
      BY <1>w, <2>4, <2>v, WaitingBefore DEF WatchKilled
    <3> QED
      BY <2>4, <3>1, <3>2 DEF WatchKilled, Abandon
  <2> QED
    BY <1>4, <2>1, <2>2, <2>3, <2>4 DEF WatchStep
<1>5. CASE UNCHANGED allVars
  BY <1>1, <1>5 DEF allVars, vars, connVars
<1> QED
  BY <1>2, <1>3, <1>4, <1>5 DEF WatchNext

LEMMA WatchTypesAre == WatchTypeOK <=> TypeOK /\ OwnTypes /\ WaitsWithEmptyHands
  BY DEF WatchTypeOK, OwnTypes, WatchesNames, WaitsWithEmptyHands

\* Every variable has its type, and a watch asks for more only when it has run
\* the command for everything it was given.
THEOREM WatchTypes == WatchSpec => []WatchTypeOK
<1>1. WatchInit => OwnTypes /\ WaitsWithEmptyHands
  BY WatchersAssumption, EmptyBatch
     DEF WatchInit, Init, OwnTypes, WatchesNames, LoopStates, WaitsWithEmptyHands
<1>2. WatchSpec => []TypeOK
  BY WatchImplementsDaemon, TypeCorrect, PTL
<1> QED
  BY <1>1, <1>2, OwnTypesStep, WaitsStep, WatchTypesAre, PTL DEF WatchSpec

-----------------------------------------------------------------------------
(* Answers: messages are of a configured room, in order, and answer the     *)
(* request that was made.                                                   *)

GoodBatch(c) ==
  /\ reply[c].kind = "messages" => req[c].room \in Rooms
  /\ Sorted(reply[c].batch)

GoodBatches == \A c \in Clients : GoodBatch(c)

LEMMA UnreadSorted ==
  ASSUME IndInv, NEW r \in Rooms
  PROVE  Sorted(Unread(r))
<1> DEFINE u == Unread(r)
           k == cursor[r]
           n == Len(messages[r]) - cursor[r]
<1>1. k \in Nat /\ n \in Int /\ u \in Seq(Nat) /\ Len(u) = n /\ \A i \in 1 .. n : u[i] = k + i
  BY UnreadIds DEF IndInv, TypeOK, Types
<1> HIDE DEF u, k, n
<1>2. Sorted(u)
  BY <1>1 DEF Sorted
<1> QED
  BY <1>2 DEF u

LEMMA NoBatch == Sorted(<<>>) /\ Sorted(NoReply.batch) /\ NoReply.kind # "messages"
  BY DEF Sorted, NoReply

LEMMA BatchStep == IndInv /\ GoodBatches /\ [Next]_vars => GoodBatches'
<1> SUFFICES ASSUME IndInv, GoodBatches, [Next]_vars, NEW d \in Clients PROVE GoodBatch(d)'
  BY DEF GoodBatches
<1> DEFINE Goal == GoodBatch(d)'
<1> USE DEF GoodBatches
<1>t. TypeOK /\ NothingHeldEarly
  BY DEF IndInv
<1>1. CASE UNCHANGED <<req, reply>>
  BY <1>1 DEF GoodBatch
<1>2. ASSUME NEW c \in Clients, NEW kind, NEW b, Respond(c, kind, b), UNCHANGED req,
             kind # "messages" \/ req[c].room \in Rooms, Sorted(b)
      PROVE  Goal
  BY <1>t, <1>2 DEF Respond, GoodBatch, TypeOK, Types
<1>3. ASSUME NEW c \in Clients, Close(c) PROVE Goal
  BY <1>t, <1>3, NoBatch DEF Close, GoodBatch, TypeOK, Types
<1>4. CASE Boot
  BY <1>1, <1>4
     DEF Boot, StartRoom, ConnectFails, ConnectSucceeds, StoreHandle, StartAccepting, connVars
<1>5. ASSUME NEW r \in Rooms, RoomStep(r) PROVE Goal
  BY <1>1, <1>5 DEF RoomStep, EmitSnapshot, ForwardIntent, DiscardIntent, SendReturns, TaskEnds,
                    PushMessage, connVars
<1>6. ASSUME NEW c \in Clients, NEW op, NEW name, Issue(c, op, name) PROVE Goal
  <2>1. reply[c] = NoReply
    BY <1>t, <1>6 DEF Issue, NothingHeldEarly
  <2> QED
    BY <1>6, <2>1, NoBatch DEF Issue, GoodBatch
<1>7. ASSUME NEW c \in Clients, CliStep(c) PROVE Goal
  BY <1>1, <1>3, <1>6, <1>7 DEF CliStep, ReadReply, ClientKilled
<1>8. ASSUME NEW c \in Clients, ServerStep(c) PROVE Goal
  <2>1. CASE ServeQuery(c)
    BY <1>2, <2>1, NoBatch DEF ServeQuery
  <2>2. CASE ServeSend(c)
    BY <1>2, <2>2, NoBatch DEF ServeSend
  <2>3. ASSUME NEW may, NEW next, req[c].room \in Rooms, DrainOr(c, may, next) PROVE Goal
    BY <1>1, <1>2, <2>3, UnreadSorted DEF DrainOr
  <2>4. CASE ServeRecv(c)
    BY <2>3, <2>4 DEF ServeRecv
  <2>5. CASE Recheck(c)
    BY <1>t, <2>3, <2>5 DEF Recheck, TypeOK, WaitsOnKnownRoom
  <2>6. CASE WriteReply(c)
    BY <1>1, <1>3, <2>6 DEF WriteReply
  <2> QED
    BY <1>1, <1>8, <2>1, <2>2, <2>4, <2>5, <2>6 DEF ServerStep, Accept, CloneNotify, Park
<1> QED
  BY <1>1, <1>4, <1>5, <1>7, <1>8 DEF Next, vars, connVars

LEMMA BatchesAreGood == Spec => []GoodBatches
<1>1. Init => GoodBatches
  BY NoBatch DEF Init, GoodBatches, GoodBatch
<1> QED
  BY <1>1, BatchStep, IndInvInvariant, PTL DEF Spec

\* No answer is written to a process that has gone.
NobodyGoneIsAnswered == \A c \in Clients : server[c] = "written" => client[c] # "gone"

LEMMA GoneStep == TypeOK /\ NobodyGoneIsAnswered /\ [Next]_vars => NobodyGoneIsAnswered'
<1> SUFFICES ASSUME TypeOK, NobodyGoneIsAnswered, [Next]_vars, NEW d \in Clients,
                    server'[d] = "written"
             PROVE  client'[d] # "gone"
  BY DEF NobodyGoneIsAnswered
<1> DEFINE Goal == client'[d] # "gone"
<1> USE DEF TypeOK, Types, NobodyGoneIsAnswered
<1>1. CASE UNCHANGED <<server, client>>
  BY <1>1
<1>2. ASSUME NEW c \in Clients, Close(c) PROVE Goal
  BY <1>2 DEF Close
<1>3. CASE Boot
  BY <1>1, <1>3
     DEF Boot, StartRoom, ConnectFails, ConnectSucceeds, StoreHandle, StartAccepting, connVars
<1>4. ASSUME NEW r \in Rooms, RoomStep(r) PROVE Goal
  <2>1. CASE PushMessage(r)
    BY <2>1 DEF PushMessage, ParkedOn
  <2> QED
    BY <1>1, <1>4, <2>1
       DEF RoomStep, EmitSnapshot, ForwardIntent, DiscardIntent, SendReturns, TaskEnds, connVars
<1>5. ASSUME NEW c \in Clients, CliStep(c) PROVE Goal
  <2>1. ASSUME NEW op, NEW name, Issue(c, op, name) PROVE Goal
    BY <2>1 DEF Issue
  <2>2. CASE ClientKilled(c)
    BY <1>2, <2>2 DEF ClientKilled
  <2> QED
    BY <1>2, <1>5, <2>1, <2>2 DEF CliStep, ReadReply
<1>6. ASSUME NEW c \in Clients, ServerStep(c) PROVE Goal
  <2>1. CASE Accept(c) \/ CloneNotify(c) \/ Park(c)
    BY <2>1 DEF Accept, CloneNotify, Park
  <2>2. CASE ServeQuery(c) \/ ServeSend(c)
    BY <2>2 DEF ServeQuery, ServeSend, Respond
  <2>3. CASE ServeRecv(c) \/ Recheck(c)
    BY <2>3 DEF ServeRecv, Recheck, DrainOr, Respond
  <2>4. CASE WriteReply(c)
    BY <1>2, <2>4 DEF WriteReply
  <2> QED
    BY <1>6, <2>1, <2>2, <2>3, <2>4 DEF ServerStep
<1> QED
  BY <1>1, <1>3, <1>4, <1>5, <1>6 DEF Next, vars, connVars

LEMMA GoneAreNotAnswered == Spec => []NobodyGoneIsAnswered
<1>1. Init => NobodyGoneIsAnswered
  BY DEF Init, NobodyGoneIsAnswered
<1> QED
  BY <1>1, GoneStep, TypeCorrect, PTL DEF Spec

\* The connection of a watch, while there is one, asks for its room; once the
\* process was killed the loop is over.
OwnRequest(w) ==
  /\ server[w] # "free" => req[w].room = watches[w]
  /\ client[w] = "gone" => loop[w] = "ended"

\* What a step of the daemon's side leaves of a connection's request.
LEMMA RequestStays ==
  ASSUME TypeOK, NEW w \in Clients,
         \/ DaemonStep
         \/ \E c \in Clients : ReadReply(c)
         \/ \E c \in Clients \ {w} : ClientKilled(c) \/ \E op, name : Issue(c, op, name)
         \/ UNCHANGED vars
  PROVE  /\ server'[w] # "free" => server[w] # "free" /\ req'[w] = req[w]
         /\ client'[w] = "gone" => client[w] = "gone"
<1> DEFINE Goal == /\ server'[w] # "free" => server[w] # "free" /\ req'[w] = req[w]
                   /\ client'[w] = "gone" => client[w] = "gone"
<1> USE DEF TypeOK, Types
<1>1. CASE UNCHANGED <<server, client, req>>
  BY <1>1
<1>2. ASSUME NEW c \in Clients, Close(c) PROVE Goal
  BY <1>2 DEF Close
<1>3. ASSUME NEW c \in Clients \ {w}, ClientKilled(c) PROVE Goal
  BY <1>2, <1>3 DEF ClientKilled
<1>4. ASSUME NEW c \in Clients \ {w}, NEW op, NEW name, Issue(c, op, name) PROVE Goal
  BY <1>4 DEF Issue
<1>5. CASE Boot
  BY <1>1, <1>5
     DEF Boot, StartRoom, ConnectFails, ConnectSucceeds, StoreHandle, StartAccepting, connVars
<1>6. ASSUME NEW r \in Rooms, RoomStep(r) PROVE Goal
  <2>1. CASE PushMessage(r)
    BY <2>1 DEF PushMessage, ParkedOn
  <2> QED
    BY <1>1, <1>6, <2>1
       DEF RoomStep, EmitSnapshot, ForwardIntent, DiscardIntent, SendReturns, TaskEnds, connVars
<1>7. ASSUME NEW c \in Clients, ServerStep(c) PROVE Goal
  <2>1. CASE Accept(c) \/ CloneNotify(c) \/ Park(c)
    BY <2>1 DEF Accept, CloneNotify, Park
  <2>2. CASE ServeQuery(c) \/ ServeSend(c)
    BY <2>2 DEF ServeQuery, ServeSend, Respond
  <2>3. CASE ServeRecv(c) \/ Recheck(c)
    BY <2>3 DEF ServeRecv, Recheck, DrainOr, Respond
  <2>4. CASE WriteReply(c)
    BY <1>2, <2>4 DEF WriteReply
  <2> QED
    BY <1>7, <2>1, <2>2, <2>3, <2>4 DEF ServerStep
<1> QED
  BY <1>1, <1>2, <1>3, <1>4, <1>5, <1>6, <1>7 DEF DaemonStep, ReadReply, vars, connVars

LEMMA OwnRequestStep ==
  ASSUME WatchTypeOK, \A v \in Watchers : OwnRequest(v), [WatchNext]_allVars, NEW w \in Watchers
  PROVE  OwnRequest(w)'
<1>w. w \in Clients /\ TypeOK /\ OwnTypes
  BY WatchersAssumption, WatchTypesAre
<1>o. OwnRequest(w)
  OBVIOUS
<1> DEFINE Kept == /\ server'[w] # "free" => server[w] # "free" /\ req'[w] = req[w]
                   /\ client'[w] = "gone" => client[w] = "gone"
<1>1. CASE Kept /\ watches' = watches /\ (client'[w] = "gone" => loop'[w] = loop[w])
  BY <1>o, <1>1 DEF OwnRequest
<1>2. CASE DaemonStep
  <2>1. Kept
    BY <1>w, <1>2, RequestStays
  <2> QED
    BY <1>1, <1>2, <2>1 DEF DaemonStep, watchVars
<1>3. ASSUME NEW c \in Clients \ Watchers, OtherStep(c) PROVE OwnRequest(w)'
  <2>1. \/ ReadReply(c)
        \/ ClientKilled(c)
        \/ \E op, name : Issue(c, op, name)
    BY <1>3 DEF OtherStep, OtherReads
  <2>2. Kept
    BY <1>w, <1>3, <2>1, RequestStays
  <2> QED
    BY <1>1, <1>3, <2>2 DEF OtherStep, OtherReads, watchVars
<1>4. ASSUME NEW v \in Watchers, WatchStep(v) PROVE OwnRequest(w)'
  <2>v. v \in Clients
    BY WatchersAssumption
  <2>1. CASE Ask(v)
    <3>1. Issue(v, "recv_wait", watches[v]) /\ UNCHANGED watchVars
      BY <2>1 DEF Ask
    <3>2. CASE v = w
      BY <1>w, <3>1, <3>2 DEF Issue, OwnRequest, watchVars, TypeOK, Types
    <3>3. CASE v # w
      <4>1. Kept
        BY <1>w, <2>v, <3>1, <3>3, RequestStays
      <4> QED
        BY <1>1, <3>1, <4>1 DEF watchVars
    <3> QED
      BY <3>2, <3>3
  <2>2. CASE GetAnswer(v)
    <3>1. Kept
      BY <1>w, <2>2, <2>v, RequestStays DEF GetAnswer
    <3>2. client'[w] = "gone" => v # w
      BY <1>w, <2>2, <2>v DEF GetAnswer, ReadReply, Close, TypeOK, Types
    <3> QED
      BY <1>1, <1>w, <2>2, <3>1, <3>2 DEF GetAnswer, OwnTypes
  <2>3. CASE RunCommand(v) \/ CommandExits(v) \/ SpawnFails(v) \/ WaitFails(v) \/ StartAgain(v)
    <3>1. UNCHANGED vars /\ watches' = watches
      BY <2>3 DEF RunCommand, CommandExits, SpawnFails, WaitFails, StartAgain, Abandon
    <3>2. Kept
      BY <1>w, <3>1, RequestStays
    <3>3. client[w] = "gone" => loop'[w] = loop[w]
      <4> SUFFICES ASSUME client[w] = "gone" PROVE loop'[w] = loop[w]
        OBVIOUS
      <4>1. loop[w] = "ended"
        BY <1>o DEF OwnRequest
      <4> QED
        BY <1>w, <2>3, <4>1
           DEF RunCommand, CommandExits, SpawnFails, WaitFails, StartAgain, Abandon, OwnTypes
    <3> QED
      BY <1>1, <3>1, <3>2, <3>3
  <2>4. CASE WatchKilled(v) /\ v # w
    <3>1. Kept
      BY <1>w, <2>4, <2>v, RequestStays DEF WatchKilled
    <3> QED
      BY <1>1, <1>w, <2>4, <3>1 DEF WatchKilled, Abandon, OwnTypes
  <2>5. CASE WatchKilled(w)
    <3>1. loop'[w] = "ended" /\ watches' = watches
      BY <1>w, <2>5 DEF WatchKilled, Abandon, OwnTypes
    <3>2. server'[w] # "free" => server[w] # "free" /\ req'[w] = req[w]
      BY <1>w, <2>5 DEF WatchKilled, ClientKilled, Close, TypeOK, Types, vars, connVars
    <3> QED
      BY <1>o, <3>1, <3>2 DEF OwnRequest
  <2> QED
    BY <1>4, <2>1, <2>2, <2>3, <2>4, <2>5 DEF WatchStep
<1>5. CASE UNCHANGED allVars
  <2>1. Kept
    BY <1>w, <1>5, RequestStays DEF allVars
  <2> QED
    BY <1>1, <1>5, <2>1 DEF allVars, watchVars
<1> QED
  BY <1>2, <1>3, <1>4, <1>5 DEF WatchNext

-----------------------------------------------------------------------------
(* Each message once *)

\* In one step a connection's hands stay as they are, are emptied, or are
\* filled with all that was unread.
LEMMA HeldAfter ==
  ASSUME IndInv, [Next]_vars, NEW c \in Clients, NEW r \in Rooms
  PROVE  Held(c, r)' = Held(c, r) \/ Held(c, r)' = {} \/ Held(c, r)' = Range(Unread(r))
<1>1. MailboxStep(r)
  BY StepMaps
<1>2. \/ HeldFrom(r)' = HeldFrom(r)
      \/ \E d \in Clients : \/ HeldFrom(r)' = [HeldFrom(r) EXCEPT ![d] = Range(Unread(r))]
                            \/ HeldFrom(r)' = [HeldFrom(r) EXCEPT ![d] = {}]
  <2>1. CASE UNCHANGED Inbox(r)!vars \/ Inbox(r)!Put
    BY <2>1 DEF Inbox!vars, Inbox!Put
  <2>2. ASSUME NEW d \in Clients, Inbox(r)!Take(d)
        PROVE  HeldFrom(r)' = [HeldFrom(r) EXCEPT ![d] = Range(Unread(r))]
    BY <2>2 DEF Inbox!Take, Inbox!Range, Range
  <2>3. ASSUME NEW d \in Clients, Inbox(r)!Finish(d) \/ Inbox(r)!Vanish(d)
        PROVE  HeldFrom(r)' = [HeldFrom(r) EXCEPT ![d] = {}]
    BY <2>3 DEF Inbox!Finish, Inbox!Vanish
  <2> QED
    BY <1>1, <2>1, <2>2, <2>3 DEF MailboxStep, Inbox!Next
<1>3. Held(c, r)' = HeldFrom(r)'[c] /\ Held(c, r) = HeldFrom(r)[c] /\ DOMAIN HeldFrom(r) = Clients
  BY DEF HeldFrom
<1> QED
  BY <1>2, <1>3

\* What was read lies below the cursor, and nobody holds it any more.
LEMMA ReadIsOver ==
  ASSUME TypeOK, EachMessageInOnePlace, NEW r \in Rooms
  PROVE  /\ \A n \in read[r] : n \in Nat /\ n <= cursor[r]
         /\ \A c \in Clients : Held(c, r) \cap read[r] = {}
<1>1. Splits(1 .. cursor[r], read[r], lost[r], HeldFrom(r)) /\ cursor[r] \in Nat
  BY DEF EachMessageInOnePlace, TypeOK, Types
<1>2. read[r] \subseteq 1 .. cursor[r]
  BY <1>1 DEF Splits
<1>3. ASSUME NEW c \in Clients PROVE Held(c, r) \cap read[r] = {}
  <2>1. HeldFrom(r)[c] = Held(c, r) /\ DOMAIN HeldFrom(r) = Clients
    BY DEF HeldFrom
  <2> QED
    BY <1>1, <2>1 DEF Splits
<1> QED
  BY <1>1, <1>2, <1>3

\* What a watch is about to be handed comes after what it ran the command for.
ComesAfter(w) ==
  \A r \in Rooms : watches[w] = r => \A m \in Range(ran[w]), n \in Held(w, r) : m < n

\* The two halves of EachMessageRunsOnce.
OnceIn(r) ==
  /\ read[r] = printed[r] \cup UNION {Received(w) : w \in WatchersOf(r)}
  /\ \A w \in WatchersOf(r) : Received(w) \cap printed[r] = {}
  /\ \A v, w \in WatchersOf(r) : v # w => Received(v) \cap Received(w) = {}

OnceBy(w) ==
  /\ Sorted(ran[w]) /\ Sorted(batch[w])
  /\ \A m \in Range(ran[w]), n \in Range(batch[w]) : m < n
  /\ abandoned[w] \cap (Range(ran[w]) \cup Range(batch[w])) = {}

LEMMA OnceHalves ==
  EachMessageRunsOnce <=> (\A r \in Rooms : OnceIn(r)) /\ (\A w \in Watchers : OnceBy(w))
  BY DEF EachMessageRunsOnce, OnceIn, OnceBy

\* The invariant of the watches, and what is known of the daemon beside them.
DaemonFacts == IndInv /\ EachMessageInOnePlace /\ GoodBatches /\ NobodyGoneIsAnswered

WatchInv ==
  /\ WatchTypeOK
  /\ \A w \in Watchers : OwnRequest(w) /\ ComesAfter(w)
  /\ EachMessageRunsOnce

\* A watch that has something to run the command for holds nothing else.
LEMMA HandsAreEmpty ==
  ASSUME DaemonFacts, WatchInv, NEW w \in Watchers, loop[w] # "ended", batch[w] # <<>> \/ loop[w] = "running"
  PROVE  \A r \in Rooms : Held(w, r) = {}
<1>1. w \in Clients /\ client[w] \in ClientStates
  BY WatchersAssumption, WatchTypesAre DEF WatchInv, TypeOK, Types
<1>2. client[w] = "idle"
  BY <1>1 DEF WatchInv, WatchTypeOK, OwnRequest, ClientStates
<1>3. reply[w] = NoReply
  BY <1>1, <1>2 DEF DaemonFacts, IndInv, NothingHeldEarly
<1> QED
  BY <1>3 DEF Held, NoReply, Range

\* What it is handed next comes after what it ran the command for.
LEMMA ComesAfterStep ==
  ASSUME DaemonFacts, WatchInv, [Next]_vars, NEW w \in Watchers,
         ran'[w] = ran[w] \/ \A r \in Rooms : Held(w, r)' = {}, watches' = watches
  PROVE  ComesAfter(w)'
<1> SUFFICES ASSUME NEW r \in Rooms, watches[w] = r,
                    NEW m \in Range(ran'[w]), NEW n \in Held(w, r)'
             PROVE  m < n
  BY DEF ComesAfter
<1>1. w \in Clients /\ TypeOK /\ m \in Range(ran[w])
  BY WatchersAssumption DEF DaemonFacts, IndInv
<1>2. m \in read[r]
  <2>1. w \in WatchersOf(r) /\ m \in Received(w)
    BY <1>1 DEF WatchersOf, Received
  <2> QED
    BY <2>1 DEF WatchInv, EachMessageRunsOnce
<1>3. m \in Nat /\ m <= cursor[r]
  BY <1>1, <1>2, ReadIsOver DEF DaemonFacts
<1>4. CASE n \in Held(w, r)
  BY <1>1, <1>4 DEF WatchInv, ComesAfter
<1>5. CASE n \in Range(Unread(r))
  <2>1. n \in (cursor[r] + 1) .. Len(messages[r])
    BY <1>5, UnreadIds DEF DaemonFacts
  <2>2. cursor[r] \in Nat /\ Len(messages[r]) \in Nat
    BY <1>1 DEF TypeOK, Types
  <2> QED
    BY <1>3, <2>1, <2>2
<1> QED
  BY <1>1, <1>4, <1>5, HeldAfter DEF DaemonFacts

\* Nobody else's messages are touched: the same for all rooms and watches.
LEMMA OnceKept ==
  ASSUME EachMessageRunsOnce, UNCHANGED <<watches, read, printed, ran, batch, abandoned>>
  PROVE  EachMessageRunsOnce'
  BY DEF EachMessageRunsOnce, Received, WatchersOf

\* One watch moves messages from one hand to the other.
LEMMA OnceMoved ==
  ASSUME EachMessageRunsOnce, OwnTypes, NEW w \in Watchers, UNCHANGED <<watches, read, printed>>,
         \A v \in Watchers \ {w} : UNCHANGED <<ran[v], batch[v], abandoned[v]>>,
         Received(w)' = Received(w), OnceBy(w)'
  PROVE  EachMessageRunsOnce'
<1>1. \A v \in Watchers : Received(v)' = Received(v)
  BY DEF Received
<1>2. \A v \in Watchers : OnceBy(v)'
  BY OnceHalves DEF OnceBy
<1>3. \A r \in Rooms : WatchersOf(r)' = WatchersOf(r) /\ WatchersOf(r) \subseteq Watchers
  BY DEF WatchersOf
<1>4. ASSUME NEW r \in Rooms PROVE OnceIn(r)'
  <2>1. {Received(v)' : v \in WatchersOf(r)'} = {Received(v) : v \in WatchersOf(r)}
    BY <1>1, <1>3
  <2> QED
    BY <1>1, <1>3, <2>1, OnceHalves DEF OnceIn
<1> QED
  BY <1>2, <1>4, OnceHalves DEF EachMessageRunsOnce, OnceIn, OnceBy

\* A process that does not watch prints what it reads.
LEMMA OncePrinted ==
  ASSUME DaemonFacts, WatchInv, NEW c \in Clients, OtherReads(c)
  PROVE  EachMessageRunsOnce'
<1>1. UNCHANGED <<watches, ran, batch, abandoned>>
  BY DEF OtherReads, watchVars
<1>2. /\ \A v \in Watchers : Received(v)' = Received(v)
      /\ \A r \in Rooms : WatchersOf(r)' = WatchersOf(r)
  BY <1>1 DEF Received, WatchersOf
<1>3. ASSUME NEW r \in Rooms PROVE OnceIn(r)'
  <2>1. read[r] \subseteq read'[r]
    BY DEF OtherReads, ReadReply, Settle, DaemonFacts, IndInv, TypeOK, Types
  <2>2. printed'[r] = printed[r] \cup (read'[r] \ read[r])
    BY DEF OtherReads
  <2>3. {Received(v)' : v \in WatchersOf(r)'} = {Received(v) : v \in WatchersOf(r)}
    BY <1>2 DEF WatchersOf
  <2>4. OnceIn(r)
    BY OnceHalves DEF WatchInv
  <2>5. \A v \in WatchersOf(r) : Received(v) \subseteq read[r] /\ v \in Watchers
    BY <2>4 DEF OnceIn, WatchersOf
  <2>6. read'[r] = printed'[r] \cup UNION {Received(v) : v \in WatchersOf(r)}
    BY <2>1, <2>2, <2>4 DEF OnceIn
  <2>7. \A v \in WatchersOf(r) : Received(v) \cap printed'[r] = {}
    BY <2>2, <2>4, <2>5 DEF OnceIn
  <2> QED
    BY <1>2, <2>3, <2>4, <2>5, <2>6, <2>7 DEF OnceIn
<1>4. \A v \in Watchers : OnceBy(v)'
  BY <1>1, OnceHalves DEF OnceBy, WatchInv
<1> QED
  BY <1>3, <1>4 DEF EachMessageRunsOnce, OnceIn, OnceBy

LEMMA DecodesAsMessages ==
  ASSUME NEW kind \in ResponseKinds, Decode(kind) = "messages"
  PROVE  kind = "messages"
<1> DEFINE First == CHOOSE i \in Candidates(kind) : \A j \in Candidates(kind) : i <= j
<1> SUFFICES ASSUME kind # "messages" PROVE Decode(kind) = "sent"
  OBVIOUS
<1>1. DOMAIN Variants = 1 .. 5 /\ Variants[1] = "messages" /\ Variants[2] = "sent"
  BY DEF Variants
<1>2. "messages" \notin Fields(kind) /\ "ok" \in Fields(kind)
  BY DEF Fields, ResponseKinds
<1>3. Fields("messages") = {"ok", "messages"} /\ Fields("sent") = {"ok"}
  BY DEF Fields
<1>4. 1 \notin Candidates(kind) /\ 2 \in Candidates(kind) /\ Candidates(kind) \subseteq 1 .. 5
  BY <1>1, <1>2, <1>3 DEF Candidates
<1>5. \E i \in Candidates(kind) : \A j \in Candidates(kind) : i <= j
  BY <1>4
<1>6. First \in Candidates(kind) /\ \A j \in Candidates(kind) : First <= j
  BY <1>5
<1>7. First = 2
  BY <1>4, <1>6
<1> QED
  BY <1>1, <1>7 DEF Decode

\* A watch takes the messages of its answer, which nobody had before.
LEMMA OnceTaken ==
  ASSUME DaemonFacts, WatchInv, NEW w \in Watchers, GetAnswer(w),
         Decode(reply[w].kind) = "messages"
  PROVE  EachMessageRunsOnce'
<1> DEFINE room == watches[w]
           new == Range(reply[w].batch)
<1>1. /\ w \in Clients /\ TypeOK /\ OwnTypes /\ OwnRequest(w) /\ ComesAfter(w)
      /\ reply[w].kind \in ResponseKinds /\ reply[w].batch \in Seq(Nat)
  BY WatchersAssumption, WatchTypesAre
     DEF WatchInv, DaemonFacts, IndInv, TypeOK, Types, Replies
<1>2. req[w].room = room /\ room \in Rooms /\ Sorted(reply[w].batch)
  <2>1. server[w] # "free" /\ reply[w].kind = "messages"
    BY <1>1, DecodesAsMessages DEF GetAnswer, ReadReply
  <2> QED
    BY <1>1, <2>1 DEF OwnRequest, DaemonFacts, GoodBatches, GoodBatch
<1>3. Held(w, room) = new /\ \A r \in Rooms \ {room} : Held(w, r) = {}
  BY <1>2 DEF Held
<1>4. /\ read' = [r \in Rooms |-> read[r] \cup Held(w, r)]
      /\ batch' = [batch EXCEPT ![w] = reply[w].batch]
      /\ UNCHANGED <<watches, ran, abandoned, printed>>
  BY DEF GetAnswer, ReadReply, Settle, watchHistory
<1>5. batch[w] = <<>>
  <2>1. client[w] \in ClientStates /\ client[w] # "idle" /\ client[w] # "gone"
    BY <1>1 DEF GetAnswer, ReadReply, DaemonFacts, IndInv, NothingHeldEarly,
                NobodyGoneIsAnswered, TypeOK, Types
  <2> QED
    BY <2>1 DEF ClientStates, WatchInv, WatchTypeOK
<1>6. /\ read'[room] = read[room] \cup new
      /\ \A r \in Rooms \ {room} : read'[r] = read[r]
  BY <1>1, <1>2, <1>3, <1>4 DEF TypeOK, Types
<1>7. /\ Received(w)' = Received(w) \cup new
      /\ \A v \in Watchers \ {w} : Received(v)' = Received(v)
      /\ \A r \in Rooms : WatchersOf(r)' = WatchersOf(r) /\ WatchersOf(r) \subseteq Watchers
  <2>1. batch'[w] = reply[w].batch /\ Range(<<>>) = {}
    BY <1>1, <1>4 DEF OwnTypes, Range
  <2>2. \A v \in Watchers \ {w} : batch'[v] = batch[v]
    BY <1>1, <1>4 DEF OwnTypes
  <2> QED
    BY <1>4, <1>5, <2>1, <2>2 DEF Received, WatchersOf
<1>8. new \cap read[room] = {}
  BY <1>1, <1>2, <1>3, ReadIsOver DEF DaemonFacts
<1>9. ASSUME NEW r \in Rooms PROVE OnceIn(r)'
  <2>1. OnceIn(r)
    BY OnceHalves DEF WatchInv
  <2>2. \A v \in WatchersOf(r) : Received(v) \subseteq read[r]
    BY <2>1 DEF OnceIn
  <2>3. printed[r] \subseteq read[r]
    BY <2>1 DEF OnceIn
  <2>4. CASE r # room
    <3>1. w \notin WatchersOf(r)
      BY <2>4 DEF WatchersOf
    <3>2. \A v \in WatchersOf(r) : Received(v)' = Received(v)
      BY <1>7, <3>1
    <3>3. {Received(v)' : v \in WatchersOf(r)'} = {Received(v) : v \in WatchersOf(r)}
      BY <1>7, <3>2
    <3> QED
      BY <1>4, <1>6, <1>7, <2>1, <2>4, <3>2, <3>3 DEF OnceIn
  <2>5. CASE r = room
    <3>1. w \in WatchersOf(r) /\ new \cap read[r] = {} /\ read'[r] = read[r] \cup new
      BY <1>6, <1>8, <2>5 DEF WatchersOf
    <3> DEFINE before == UNION {Received(v) : v \in WatchersOf(r)}
               after == UNION {Received(v)' : v \in WatchersOf(r)'}
    <3>2. after = before \cup new
      <4>1. ASSUME NEW x PROVE x \in after <=> \E v \in WatchersOf(r) : x \in Received(v)'
        BY <1>7
      <4>2. ASSUME NEW x PROVE x \in before <=> \E v \in WatchersOf(r) : x \in Received(v)
        OBVIOUS
      <4> HIDE DEF before, after, new
      <4>3. ASSUME NEW x PROVE x \in after <=> x \in before \/ x \in new
        BY <1>7, <3>1, <4>1, <4>2
      <4> QED
        BY <4>3
    <3>3. read'[r] = printed'[r] \cup after
      <4>1. read[r] = printed[r] \cup before /\ printed'[r] = printed[r]
        BY <1>4, <2>1 DEF OnceIn
      <4> HIDE DEF before, after, new
      <4> QED
        BY <3>1, <3>2, <4>1
    <3>4. \A v \in WatchersOf(r) : Received(v)' \cap printed[r] = {}
      BY <1>7, <2>1, <2>3, <3>1 DEF OnceIn
    <3>5. ASSUME NEW u \in WatchersOf(r), NEW v \in WatchersOf(r), u # v
          PROVE  Received(u)' \cap Received(v)' = {}
      <4>1. /\ Received(u) \cap Received(v) = {}
            /\ Received(u) \subseteq read[r] /\ Received(v) \subseteq read[r]
        BY <2>1, <2>2, <3>5 DEF OnceIn
      <4>2. CASE u = w
        BY <1>7, <3>1, <3>5, <4>1, <4>2
      <4>3. CASE v = w
        BY <1>7, <3>1, <3>5, <4>1, <4>3
      <4> QED
        BY <1>7, <4>1, <4>2, <4>3
    <3> QED
      BY <1>4, <1>7, <3>3, <3>4, <3>5 DEF OnceIn
  <2> QED
    BY <2>4, <2>5
<1>10. ASSUME NEW v \in Watchers PROVE OnceBy(v)'
  <2>1. OnceBy(v)
    BY OnceHalves DEF WatchInv
  <2>2. CASE v # w
    BY <1>1, <1>4, <2>1, <2>2 DEF OnceBy, OwnTypes
  <2>3. CASE v = w
    <3>1. batch'[w] = reply[w].batch
      BY <1>1, <1>4 DEF OwnTypes
    <3>2. \A m \in Range(ran[w]), n \in new : m < n
      BY <1>1, <1>2, <1>3 DEF ComesAfter
    <3>3. abandoned[w] \subseteq read[room]
      <4>1. OnceIn(room) /\ w \in WatchersOf(room)
        BY <1>2, OnceHalves DEF WatchInv, WatchersOf
      <4> QED
        BY <4>1 DEF OnceIn, Received
    <3> QED
      BY <1>2, <1>4, <1>8, <2>1, <2>3, <3>1, <3>2, <3>3 DEF OnceBy
  <2> QED
    BY <2>2, <2>3
<1> QED
  BY <1>9, <1>10 DEF EachMessageRunsOnce, OnceIn, OnceBy

\* A watch starts the command for its next message.
LEMMA OnceRun ==
  ASSUME OwnTypes, EachMessageRunsOnce, NEW w \in Watchers, RunCommand(w)
  PROVE  EachMessageRunsOnce'
<1> DEFINE head == Head(batch[w])
           tail == Tail(batch[w])
<1>1. batch[w] \in Seq(Nat) /\ batch[w] # <<>> /\ ran[w] \in Seq(Nat) /\ OnceBy(w)
  BY OnceHalves DEF OwnTypes, RunCommand
<1>2. /\ Sorted(tail) /\ Range(batch[w]) = {head} \cup Range(tail)
      /\ \A n \in Range(tail) : head < n
      /\ head \in Nat
  BY <1>1, HeadSorted, QueueTypes DEF OnceBy
<1>3. \A m \in Range(ran[w]) : m < head
  BY <1>1, <1>2 DEF OnceBy
<1>4. Sorted(Append(ran[w], head)) /\ Range(Append(ran[w], head)) = Range(ran[w]) \cup {head}
  BY <1>1, <1>2, <1>3, AppendSorted DEF OnceBy
<1>5. /\ ran'[w] = Append(ran[w], head) /\ batch'[w] = tail
      /\ UNCHANGED <<watches, read, printed, abandoned>>
      /\ \A v \in Watchers \ {w} : UNCHANGED <<ran[v], batch[v], abandoned[v]>>
  BY DEF RunCommand, OwnTypes, vars, snapshotHistory
<1> HIDE DEF head, tail
<1>6. Received(w)' = Received(w)
  BY <1>2, <1>4, <1>5 DEF Received
<1>7. OnceBy(w)'
  BY <1>1, <1>2, <1>3, <1>4, <1>5 DEF OnceBy
<1> QED
  BY <1>5, <1>6, <1>7, OnceMoved

\* A watch that ends abandons what it has.
LEMMA OnceAbandoned ==
  ASSUME OwnTypes, EachMessageRunsOnce, NEW w \in Watchers, Abandon(w), UNCHANGED read
  PROVE  EachMessageRunsOnce'
<1>1. OnceBy(w) /\ Range(<<>>) = {} /\ Sorted(<<>>)
  BY OnceHalves DEF Range, Sorted
<1>2. /\ batch'[w] = <<>> /\ abandoned'[w] = abandoned[w] \cup Range(batch[w])
      /\ UNCHANGED <<watches, read, printed, ran>>
      /\ \A v \in Watchers \ {w} : UNCHANGED <<ran[v], batch[v], abandoned[v]>>
  BY DEF Abandon, OwnTypes
<1>3. Range(ran[w]) \cap Range(batch[w]) = {}
  <2>1. \A m \in Range(ran[w]) : m \in Nat
    BY DEF OwnTypes, Range
  <2> QED
    BY <1>1, <2>1 DEF OnceBy
<1>4. Received(w)' = Received(w)
  BY <1>1, <1>2 DEF Received
<1>5. OnceBy(w)'
  BY <1>1, <1>2, <1>3 DEF OnceBy
<1> QED
  BY <1>2, <1>4, <1>5, OnceMoved

LEMMA OnceStep ==
  ASSUME DaemonFacts, WatchInv, [WatchNext]_allVars
  PROVE  EachMessageRunsOnce'
<1>t. TypeOK /\ OwnTypes /\ EachMessageRunsOnce
  BY WatchTypesAre DEF WatchInv
<1>1. CASE UNCHANGED <<read, watchVars, watchHistory>>
  BY <1>t, <1>1, OnceKept DEF watchVars, watchHistory
<1>2. CASE DaemonStep
  <2>1. UNCHANGED read
    BY <1>2 DEF DaemonStep, Boot, StartRoom, ConnectFails, ConnectSucceeds, StoreHandle,
       StartAccepting, RoomStep, EmitSnapshot, ForwardIntent, DiscardIntent, SendReturns, TaskEnds,
       PushMessage, ServerStep, Accept, ServeQuery, ServeSend, ServeRecv, CloneNotify, Park,
       Recheck, DrainOr, WriteReply, snapshotHistory
  <2> QED
    BY <1>1, <1>2, <2>1 DEF DaemonStep
<1>3. ASSUME NEW c \in Clients \ Watchers, OtherStep(c) PROVE EachMessageRunsOnce'
  BY <1>1, <1>3, OncePrinted DEF OtherStep, Issue, ClientKilled, snapshotHistory
<1>4. ASSUME NEW w \in Watchers, WatchStep(w) PROVE EachMessageRunsOnce'
  <2>1. CASE Ask(w)
    BY <1>1, <2>1 DEF Ask, Issue, snapshotHistory
  <2>2. CASE GetAnswer(w)
    <3>1. CASE Decode(reply[w].kind) = "messages"
      BY <2>2, <3>1, OnceTaken
    <3>2. CASE Decode(reply[w].kind) # "messages"
      BY <1>t, <2>2, <3>2, OnceKept DEF GetAnswer, ReadReply, watchHistory
    <3> QED
      BY <3>1, <3>2
  <2>3. CASE RunCommand(w)
    BY <1>t, <2>3, OnceRun
  <2>4. CASE CommandExits(w) \/ StartAgain(w)
    BY <1>t, <2>4, OnceKept DEF CommandExits, StartAgain, watchHistory, vars, snapshotHistory
  <2>5. CASE Abandon(w) /\ UNCHANGED read
    BY <1>t, <2>5, OnceAbandoned
  <2>6. CASE SpawnFails(w) \/ WaitFails(w) \/ WatchKilled(w)
    BY <2>5, <2>6 DEF SpawnFails, WaitFails, WatchKilled, ClientKilled, vars, snapshotHistory
  <2> QED
    BY <1>4, <2>1, <2>2, <2>3, <2>4, <2>6 DEF WatchStep
<1> QED
  BY <1>1, <1>2, <1>3, <1>4 DEF WatchNext, allVars, vars, snapshotHistory

LEMMA ComesAfterKept ==
  ASSUME DaemonFacts, WatchInv, [WatchNext]_allVars, NEW w \in Watchers
  PROVE  ComesAfter(w)'
<1>t. OwnTypes /\ w \in Clients
  BY WatchTypesAre, WatchersAssumption DEF WatchInv
<1>1. [Next]_vars
  BY <1>t, WatchStepMaps DEF OwnTypes
<1>2. watches' = watches
  BY DEF WatchNext, DaemonStep, OtherStep, OtherReads, WatchStep, Ask, GetAnswer, RunCommand,
     CommandExits, SpawnFails, WaitFails, WatchKilled, StartAgain, Abandon, watchVars, allVars
<1>3. CASE RunCommand(w)
  <2>1. loop[w] = "looping" /\ batch[w] # <<>> /\ UNCHANGED vars
    BY <1>3 DEF RunCommand
  <2>2. \A r \in Rooms : Held(w, r) = {}
    BY <2>1, HandsAreEmpty
  <2>3. \A r \in Rooms : Held(w, r)' = {}
    BY <2>1, <2>2 DEF Held, vars, connVars
  <2> QED
    BY <1>1, <1>2, <2>3, ComesAfterStep
<1>4. CASE ~RunCommand(w)
  <2>1. ran'[w] = ran[w]
    BY <1>t, <1>4 DEF OwnTypes, WatchNext, DaemonStep, OtherStep, OtherReads, WatchStep, Ask,
       GetAnswer, RunCommand, CommandExits, SpawnFails, WaitFails, WatchKilled, StartAgain, Abandon,
       watchHistory, allVars
  <2> QED
    BY <1>1, <1>2, <2>1, ComesAfterStep
<1> QED
  BY <1>3, <1>4

LEMMA WatchInvStep == DaemonFacts /\ WatchTypeOK' /\ WatchInv /\ [WatchNext]_allVars => WatchInv'
<1> SUFFICES ASSUME DaemonFacts, WatchTypeOK', WatchInv, [WatchNext]_allVars PROVE WatchInv'
  OBVIOUS
<1>1. \A w \in Watchers : OwnRequest(w)'
  BY OwnRequestStep DEF WatchInv
<1>2. \A w \in Watchers : ComesAfter(w)'
  BY ComesAfterKept
<1>3. EachMessageRunsOnce'
  BY OnceStep
<1> QED
  BY <1>1, <1>2, <1>3 DEF WatchInv

\* However many processes read a room, `watch` or not, and however often a
\* watch fails, is killed or is started again, each message that was read is
\* with one of them, once, and no watch runs its commands out of order.
THEOREM CommandsRunOnce == WatchSpec => []EachMessageRunsOnce
<1>1. WatchInit /\ WatchTypeOK => WatchInv
  <2> SUFFICES ASSUME WatchInit, WatchTypeOK PROVE WatchInv
    OBVIOUS
  <2>1. Range(<<>>) = {} /\ Sorted(<<>>)
    BY DEF Range, Sorted
  <2>2. \A w \in Watchers : ran[w] = <<>> /\ batch[w] = <<>> /\ abandoned[w] = {} /\ w \in Clients
    BY WatchersAssumption DEF WatchInit
  <2>3. \A w \in Watchers : OwnRequest(w) /\ ComesAfter(w) /\ OnceBy(w) /\ Received(w) = {}
    BY <2>1, <2>2 DEF WatchInit, Init, OwnRequest, ComesAfter, OnceBy, Received
  <2>4. \A r \in Rooms : OnceIn(r)
    BY <2>3 DEF WatchInit, Init, OnceIn, WatchersOf
  <2> QED
    BY <2>3, <2>4, OnceHalves DEF WatchInv
<1>2. WatchInv => EachMessageRunsOnce
  BY DEF WatchInv
<1>3. WatchSpec => []DaemonFacts
  <2>1. IndInv /\ EachMessageInOnePlace /\ GoodBatches /\ NobodyGoneIsAnswered => DaemonFacts
    BY DEF DaemonFacts
  <2> QED
    BY <2>1, WatchImplementsDaemon, IndInvInvariant, OneReaderPerMessage, BatchesAreGood,
       GoneAreNotAnswered, PTL
<1> QED
  BY <1>1, <1>2, <1>3, WatchInvStep, WatchTypes, PTL DEF WatchSpec

=============================================================================
