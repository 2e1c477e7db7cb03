---------------------------- MODULE DaemonProofs ----------------------------
(***************************************************************************)
(* Theorems of module Daemon, for any set of rooms, of CLI processes, of   *)
(* request kinds and any bounds.                                           *)
(***************************************************************************)
EXTENDS Daemon, SequenceTheorems, TLAPS

USE DEF bootVars, taskVars, roomVars, connVars, snapshotHistory, intentHistory

-----------------------------------------------------------------------------
(* Sequences of numbers *)

\* Head, tail and append of a non-empty sequence of numbers have their types.
LEMMA QueueTypes ==
  ASSUME NEW s \in Seq(Nat)
  PROVE  /\ \A n \in Nat : Append(s, n) \in Seq(Nat)
         /\ s # <<>> => Head(s) \in Nat /\ Tail(s) \in Seq(Nat)
         /\ Range(s) \in SUBSET Nat
  BY DEF Range

\* A drained batch, and what a connection holds, are made of numbers.
LEMMA BatchTypes ==
  ASSUME TypeOK
  PROVE  /\ \A r \in Rooms : Unread(r) \in Seq(Nat)
         /\ \A c \in Clients, r \in Rooms : Held(c, r) \in SUBSET Nat
<1>1. ASSUME NEW r \in Rooms PROVE Unread(r) \in Seq(Nat)
  BY DEF TypeOK, Types, Unread
<1>2. ASSUME NEW c \in Clients, NEW r \in Rooms PROVE Held(c, r) \in SUBSET Nat
  BY QueueTypes DEF TypeOK, Types, Held, Replies
<1> QED
  BY <1>1, <1>2

\* The batch of a response that carries no messages.
LEMMA EmptyBatch == <<>> \in Seq(Nat)
  OBVIOUS

-----------------------------------------------------------------------------
(* Type correctness *)

LEMMA TypeInit == Init => TypeOK
  BY ConstantsAssumption DEF Init, TypeOK, Types, WaitsOnKnownRoom, BootStates, TaskStates, ServerStates, ClientStates,
     RequestOps, Names, Replies, ResponseKinds, NoRequest, NoReply

\* A response of a known kind with a batch of numbers keeps the types.
LEMMA RespondTypes ==
  ASSUME TypeOK, NEW c \in Clients, NEW kind \in ResponseKinds, NEW batch \in Seq(Nat),
         Respond(c, kind, batch)
  PROVE  /\ server' \in [Clients -> ServerStates]
         /\ reply' \in [Clients -> Replies]
  BY DEF TypeOK, Types, Respond, ServerStates, Replies

\* So does closing a connection.
LEMMA CloseTypes ==
  ASSUME TypeOK, NEW c \in Clients, Close(c)
  PROVE  /\ server' \in [Clients -> ServerStates]
         /\ client' \in [Clients -> ClientStates]
         /\ req' \in [Clients -> [op : RequestOps, room : Names]]
         /\ reply' \in [Clients -> Replies]
  BY DEF TypeOK, Types, Close, ServerStates, ClientStates, Replies, NoReply, NoRequest, ResponseKinds,
     RequestOps, Names

\* And settling what it held in one of the histories.
LEMMA SettleTypes ==
  ASSUME TypeOK, NEW c \in Clients, NEW h \in [Rooms -> SUBSET Nat]
  PROVE  Settle(h, c) \in [Rooms -> SUBSET Nat]
  BY BatchTypes DEF Settle

\* A connection is closed and what it held is lost.
LEMMA ClosedTypes ==
  ASSUME TypeOK, NEW c \in Clients, Close(c), lost' = Settle(lost, c),
         UNCHANGED <<bootVars, taskVars, roomVars, emitted, read, intentHistory>>
  PROVE  Types'
<1>1. lost' \in [Rooms -> SUBSET Nat]
  BY SettleTypes DEF TypeOK, Types
<1>2. /\ server' \in [Clients -> ServerStates]
      /\ client' \in [Clients -> ClientStates]
      /\ req' \in [Clients -> [op : RequestOps, room : Names]]
      /\ reply' \in [Clients -> Replies]
  BY CloseTypes
<1> QED
  BY <1>1, <1>2 DEF TypeOK, Types, bootVars, taskVars, roomVars, intentHistory

LEMMA TypeBoot == TypeOK /\ Boot => Types'
<1> SUFFICES ASSUME TypeOK, Boot PROVE Types'
  OBVIOUS
<1> USE DEF TypeOK, Types, BootStates, Names
<1>1. ASSUME NEW r \in Rooms, StartRoom(r) PROVE Types'
  BY <1>1 DEF StartRoom
<1>2. CASE ConnectFails
  BY <1>2, ConstantsAssumption DEF ConnectFails
<1>3. CASE ConnectSucceeds
  <2>1. starting \in Rooms
    BY <1>3 DEF ConnectSucceeds
  <2>2. push' \in [Rooms -> Seq(Nat)] /\ emitted' \in [Rooms -> Nat]
    BY <1>3, <2>1, QueueTypes DEF ConnectSucceeds
  <2>3. task' \in [Rooms -> TaskStates]
    BY <1>3 DEF ConnectSucceeds, TaskStates
  <2> QED
    BY <1>3, <2>2, <2>3 DEF ConnectSucceeds
<1>4. CASE StoreHandle
  BY <1>4, ConstantsAssumption DEF StoreHandle
<1>5. CASE StartAccepting
  BY <1>5 DEF StartAccepting
<1> QED
  BY <1>1, <1>2, <1>3, <1>4, <1>5 DEF Boot

LEMMA TypeRoom == ASSUME NEW r \in Rooms PROVE TypeOK /\ RoomStep(r) => Types'
<1> SUFFICES ASSUME TypeOK, RoomStep(r) PROVE Types'
  OBVIOUS
<1> USE QueueTypes DEF TypeOK, Types, TaskStates
<1>1. CASE EmitSnapshot(r)
  BY <1>1 DEF EmitSnapshot
<1>2. CASE ForwardIntent(r)
  BY <1>2 DEF ForwardIntent
<1>3. CASE DiscardIntent(r)
  BY <1>3 DEF DiscardIntent
<1>4. CASE SendReturns(r)
  BY <1>4 DEF SendReturns
<1>5. CASE TaskEnds(r)
  <2>1. Range(intents[r]) \in SUBSET Nat
    BY QueueTypes
  <2>2. dropped' \in [Rooms -> SUBSET Nat] /\ intents' \in [Rooms -> Seq(Nat)]
    BY <1>5, <2>1 DEF TaskEnds
  <2> QED
    BY <1>5, <2>2 DEF TaskEnds
<1>6. CASE PushMessage(r)
  BY <1>6 DEF PushMessage, ServerStates
<1> QED
  BY <1>1, <1>2, <1>3, <1>4, <1>5, <1>6 DEF RoomStep

LEMMA TypeCli == ASSUME NEW c \in Clients PROVE TypeOK /\ CliStep(c) => Types'
<1> SUFFICES ASSUME TypeOK, CliStep(c) PROVE Types'
  OBVIOUS
<1> USE DEF TypeOK, Types
<1>1. ASSUME NEW op \in Ops, NEW name \in Names, Issue(c, op, name) PROVE Types'
  BY <1>1, ConstantsAssumption DEF Issue, ServerStates, ClientStates
<1>2. CASE ReadReply(c)
  <2>1. Close(c)
    BY <1>2 DEF ReadReply
  <2>a. /\ Settle(read, c) \in [Rooms -> SUBSET Nat]
        /\ Settle(lost, c) \in [Rooms -> SUBSET Nat]
    BY SettleTypes
  <2>2. read' \in [Rooms -> SUBSET Nat] /\ lost' \in [Rooms -> SUBSET Nat]
    BY <1>2, <2>a DEF ReadReply
  <2> QED
    BY <1>2, <2>1, <2>2, CloseTypes DEF ReadReply
<1>3. CASE ClientKilled(c)
  <2>1. CASE server[c] = "written"
    BY <1>3, <2>1, ClosedTypes DEF ClientKilled
  <2>2. CASE server[c] # "written"
    <3>1. client' = [client EXCEPT ![c] = "gone"] /\ UNCHANGED <<server, req, reply, lost>>
      BY <1>3, <2>2 DEF ClientKilled
    <3>2. client' \in [Clients -> ClientStates]
      BY <3>1 DEF ClientStates
    <3> QED
      BY <1>3, <3>1, <3>2 DEF ClientKilled
  <2> QED
    BY <2>1, <2>2
<1> QED
  BY <1>1, <1>2, <1>3 DEF CliStep

LEMMA TypeServer == ASSUME NEW c \in Clients PROVE TypeOK /\ ServerStep(c) => Types'
<1> SUFFICES ASSUME TypeOK, ServerStep(c) PROVE Types'
  OBVIOUS
<1> DEFINE r == req[c].room
<1>r. \A n \in Rooms : Unread(n) \in Seq(Nat)
  BY BatchTypes
<1>1. CASE Accept(c)
  BY <1>1 DEF Accept, TypeOK, Types, ServerStates
<1>2. CASE ServeQuery(c)
  <2>1. PICK kind \in ResponseKinds : Respond(c, kind, <<>>)
    BY <1>2 DEF ServeQuery, ResponseKinds
  <2>2. server' \in [Clients -> ServerStates] /\ reply' \in [Clients -> Replies]
    BY <2>1, EmptyBatch, RespondTypes
  <2> QED
    BY <1>2, <2>2 DEF ServeQuery, TypeOK, Types
<1>3. CASE ServeSend(c)
  <2>1. PICK kind \in ResponseKinds : Respond(c, kind, <<>>)
    BY <1>3 DEF ServeSend, ResponseKinds
  <2>2. server' \in [Clients -> ServerStates] /\ reply' \in [Clients -> Replies]
    BY <2>1, EmptyBatch, RespondTypes
  <2>3. sent' \in [Rooms -> Nat] /\ sent[r] + 1 \in Nat
    BY <1>3 DEF ServeSend, TypeOK, Types, Respond
  <2>a. /\ r \in Rooms
        /\ \/ dropped' = dropped
           \/ dropped' = [dropped EXCEPT ![r] = dropped[r] \cup {sent[r] + 1}]
        /\ \/ intents' = intents
           \/ intents' = [intents EXCEPT ![r] = Append(intents[r], sent[r] + 1)]
    BY <1>3 DEF ServeSend
  <2>d. intents \in [Rooms -> Seq(Nat)]
    BY DEF TypeOK, Types
  <2>c. dropped[r] \cup {sent[r] + 1} \in SUBSET Nat
    BY <2>3, <2>a DEF TypeOK, Types
  <2>4. dropped' \in [Rooms -> SUBSET Nat]
    BY <2>a, <2>c DEF TypeOK, Types
  <2>b. Append(intents[r], sent[r] + 1) \in Seq(Nat)
    BY <2>3, <2>a, QueueTypes DEF TypeOK, Types
  <2>5. intents' \in [Rooms -> Seq(Nat)]
    BY <2>a, <2>b, <2>d
  <2> QED
    BY <1>3, <2>2, <2>3, <2>4, <2>5 DEF ServeSend, TypeOK, Types
<1>4. ASSUME NEW may \in BOOLEAN, NEW next \in ServerStates, r \in Rooms, DrainOr(c, may, next)
      PROVE  Types'
  <2>1. server' \in [Clients -> ServerStates] /\ reply' \in [Clients -> Replies]
    BY <1>4, <1>r, RespondTypes DEF DrainOr, TypeOK, Types, ResponseKinds
  <2>2. cursor' \in [Rooms -> Nat]
    BY <1>4 DEF DrainOr, TypeOK, Types
  <2> QED
    BY <1>4, <2>1, <2>2 DEF DrainOr, TypeOK, Types
<1>5. CASE ServeRecv(c)
  BY <1>5, <1>4 DEF ServeRecv, ServerStates
<1>6. CASE CloneNotify(c)
  BY <1>6 DEF CloneNotify, TypeOK, Types, ServerStates
<1>7. CASE Park(c)
  BY <1>7 DEF Park, TypeOK, Types, ServerStates
<1>8. CASE Recheck(c)
  BY <1>8, <1>4 DEF Recheck, ServerStates, TypeOK, WaitsOnKnownRoom
<1>9. CASE WriteReply(c)
  <2>1. CASE client[c] = "gone"
    BY <1>9, <2>1, ClosedTypes DEF WriteReply
  <2>2. CASE client[c] # "gone"
    <3>1. server' = [server EXCEPT ![c] = "written"] /\ UNCHANGED <<client, req, reply, lost>>
      BY <1>9, <2>2 DEF WriteReply
    <3>2. server' \in [Clients -> ServerStates]
      BY <3>1 DEF TypeOK, Types, ServerStates
    <3> QED
      BY <1>9, <3>1, <3>2 DEF WriteReply, TypeOK, Types
  <2> QED
    BY <2>1, <2>2
<1> QED
  BY <1>1, <1>2, <1>3, <1>5, <1>6, <1>7, <1>8, <1>9 DEF ServerStep

LEMMA WaitStep == TypeOK /\ [Next]_vars => WaitsOnKnownRoom'
<1> SUFFICES ASSUME TypeOK, [Next]_vars, NEW d \in Clients,
                    server'[d] \in {"drained", "armed", "parked", "woken"}
             PROVE  req'[d].op = "recv_wait" /\ req'[d].room \in Rooms
  BY DEF WaitsOnKnownRoom
<1> USE DEF TypeOK, Types, WaitsOnKnownRoom
<1>1. CASE UNCHANGED <<server, req>>
  BY <1>1
<1>2. CASE Boot
  BY <1>1, <1>2 DEF Boot, StartRoom, ConnectFails, ConnectSucceeds, StoreHandle, StartAccepting
<1>3. ASSUME NEW r \in Rooms, RoomStep(r)
      PROVE  req'[d].op = "recv_wait" /\ req'[d].room \in Rooms
  <2>1. CASE PushMessage(r)
    BY <2>1 DEF PushMessage, ParkedOn
  <2> QED
    BY <1>1, <1>3, <2>1 DEF RoomStep, EmitSnapshot, ForwardIntent, DiscardIntent, SendReturns, TaskEnds
<1>4. ASSUME NEW c \in Clients, CliStep(c)
      PROVE  req'[d].op = "recv_wait" /\ req'[d].room \in Rooms
  BY <1>4 DEF CliStep, Issue, ReadReply, ClientKilled, Close
<1>5. ASSUME NEW c \in Clients, ServerStep(c)
      PROVE  req'[d].op = "recv_wait" /\ req'[d].room \in Rooms
  <2>1. CASE Accept(c) \/ CloneNotify(c) \/ Park(c)
    BY <2>1 DEF Accept, CloneNotify, Park
  <2>2. CASE ServeQuery(c) \/ ServeSend(c)
    BY <2>2 DEF ServeQuery, ServeSend, Respond
  <2>3. CASE ServeRecv(c)
    BY <2>3 DEF ServeRecv, DrainOr, Respond
  <2>4. CASE Recheck(c)
    BY <2>4 DEF Recheck, DrainOr, Respond
  <2>5. CASE WriteReply(c)
    BY <2>5 DEF WriteReply, Close
  <2> QED
    BY <1>5, <2>1, <2>2, <2>3, <2>4, <2>5 DEF ServerStep
<1> QED
  BY <1>1, <1>2, <1>3, <1>4, <1>5 DEF Next, vars

LEMMA TypeStep == TypeOK /\ [Next]_vars => TypeOK'
<1>1. TypeOK /\ [Next]_vars => Types'
  BY TypeBoot, TypeRoom, TypeCli, TypeServer DEF Next, vars, TypeOK, Types
<1> QED
  BY <1>1, WaitStep DEF TypeOK

\* Type correctness of every reachable state.
THEOREM TypeCorrect == Spec => []TypeOK
  BY TypeInit, TypeStep, PTL DEF Spec

-----------------------------------------------------------------------------
(* Order: element by element, the log followed by the push channel counts   *)
(* up from 1; the cursor stays within the log.                              *)

InOrder(r) ==
  /\ cursor[r] <= Len(messages[r])
  /\ emitted[r] = Len(messages[r]) + Len(push[r])
  /\ \A i \in 1 .. Len(messages[r]) : messages[r][i] = i
  /\ \A i \in 1 .. Len(push[r]) : push[r][i] = Len(messages[r]) + i

\* A connection that is not answering holds no response, and a CLI slot is
\* idle exactly when it has no connection.
NothingHeldEarly ==
  \A c \in Clients :
    /\ server[c] \notin {"replying", "written"} => reply[c] = NoReply
    /\ client[c] = "idle" <=> server[c] = "free"

IndInv == TypeOK /\ (\A r \in Rooms : InOrder(r)) /\ NothingHeldEarly

\* Appending the next number, or moving the head of the channel to the log,
\* keeps both in order.
LEMMA AppendKeepsCounting ==
  ASSUME NEW m \in Seq(Nat), NEW k \in Nat, \A i \in 1 .. Len(m) : m[i] = k + i
  PROVE  /\ Len(Append(m, k + Len(m) + 1)) = Len(m) + 1
         /\ \A i \in 1 .. Len(m) + 1 : Append(m, k + Len(m) + 1)[i] = k + i
  OBVIOUS

LEMMA OrderStep == IndInv /\ [Next]_vars => \A r \in Rooms : InOrder(r)'
<1> SUFFICES ASSUME IndInv, [Next]_vars, NEW q \in Rooms PROVE InOrder(q)'
  OBVIOUS
<1> USE DEF IndInv, TypeOK, Types
<1>1. CASE UNCHANGED <<cursor, messages, push, emitted>>
  BY <1>1 DEF InOrder
<1>2. ASSUME NEW r \in Rooms, emitted[r] \in Nat,
             push' = [push EXCEPT ![r] = Append(@, emitted[r] + 1)],
             emitted' = [emitted EXCEPT ![r] = @ + 1],
             UNCHANGED <<cursor, messages>>
      PROVE  InOrder(q)'
  <2>1. CASE q # r
    BY <1>2, <2>1 DEF InOrder
  <2>2. CASE q = r
    <3>1. push'[q] = Append(push[q], Len(messages[q]) + Len(push[q]) + 1)
      BY <1>2, <2>2 DEF InOrder
    <3>2. /\ push[q] \in Seq(Nat)
          /\ Len(messages[q]) \in Nat
          /\ \A i \in 1 .. Len(push[q]) : push[q][i] = Len(messages[q]) + i
      BY DEF InOrder
    <3>3. /\ Len(push'[q]) = Len(push[q]) + 1
          /\ \A i \in 1 .. Len(push[q]) + 1 : push'[q][i] = Len(messages[q]) + i
      <4> DEFINE m == push[q]
                 k == Len(messages[q])
      <4>1. m \in Seq(Nat) /\ k \in Nat /\ \A i \in 1 .. Len(m) : m[i] = k + i
        BY <3>2
      <4>2. push'[q] = Append(m, k + Len(m) + 1)
        BY <3>1
      <4> HIDE DEF m, k, IndInv
      <4>3. /\ Len(Append(m, k + Len(m) + 1)) = Len(m) + 1
            /\ \A i \in 1 .. Len(m) + 1 : Append(m, k + Len(m) + 1)[i] = k + i
        BY <4>1, AppendKeepsCounting
      <4> QED
        BY <4>2, <4>3 DEF m, k
    <3>4. /\ emitted'[q] = emitted[q] + 1
          /\ messages'[q] = messages[q]
          /\ cursor'[q] = cursor[q]
          /\ Len(push[q]) \in Nat
      BY <1>2, <2>2, <3>2
    <3> QED
      BY <3>2, <3>3, <3>4 DEF InOrder
  <2> QED
    BY <2>1, <2>2
<1>3. CASE Boot
  <2>1. CASE ConnectSucceeds
    BY <2>1, <1>2 DEF ConnectSucceeds
  <2> QED
    BY <1>1, <1>3, <2>1 DEF Boot, StartRoom, ConnectFails, StoreHandle, StartAccepting
<1>4. ASSUME NEW r \in Rooms, RoomStep(r) PROVE InOrder(q)'
  <2>1. CASE EmitSnapshot(r)
    BY <2>1, <1>2 DEF EmitSnapshot
  <2>2. CASE PushMessage(r)
    <3>1. CASE q # r
      BY <2>2, <3>1 DEF PushMessage, InOrder
    <3>2. CASE q = r
      <4>1. /\ push[q] # <<>>
            /\ push'[q] = Tail(push[q])
            /\ messages'[q] = Append(messages[q], Head(push[q]))
            /\ UNCHANGED <<cursor, emitted>>
        BY <2>2, <3>2 DEF PushMessage
      <4>2. Head(push[q]) = 0 + Len(messages[q]) + 1
        BY <4>1 DEF InOrder
      <4>3. /\ Len(messages'[q]) = Len(messages[q]) + 1
            /\ \A i \in 1 .. Len(messages[q]) + 1 : messages'[q][i] = i
        <5> DEFINE m == messages[q]
        <5>1. m \in Seq(Nat) /\ \A i \in 1 .. Len(m) : m[i] = 0 + i
          BY DEF InOrder
        <5>2. messages'[q] = Append(m, 0 + Len(m) + 1)
          BY <4>1, <4>2
        <5> HIDE DEF m, IndInv
        <5>3. /\ Len(Append(m, 0 + Len(m) + 1)) = Len(m) + 1
              /\ \A i \in 1 .. Len(m) + 1 : Append(m, 0 + Len(m) + 1)[i] = 0 + i
          BY <5>1, AppendKeepsCounting
        <5> QED
          BY <5>2, <5>3 DEF m
      <4>4. /\ Len(push'[q]) = Len(push[q]) - 1
            /\ \A i \in 1 .. Len(push[q]) - 1 : push'[q][i] = push[q][i + 1]
        BY <4>1, HeadTailProperties
      <4>5. Len(push[q]) \in Nat /\ Len(messages[q]) \in Nat /\ cursor[q] \in Nat
        OBVIOUS
      <4>6. \A i \in 1 .. Len(push'[q]) : push'[q][i] = Len(messages'[q]) + i
        <5> TAKE i \in 1 .. Len(push'[q])
        <5>1. i \in 1 .. Len(push[q]) - 1
          BY <4>4
        <5>3. i + 1 \in 1 .. Len(push[q])
          BY <5>1, <4>5
        <5>2. push'[q][i] = Len(messages[q]) + (i + 1)
          BY <4>4, <5>1, <5>3 DEF InOrder
        <5> QED
          BY <4>3, <4>5, <5>1, <5>2
      <4>7. emitted'[q] = Len(messages'[q]) + Len(push'[q]) /\ cursor'[q] <= Len(messages'[q])
        BY <4>1, <4>3, <4>4, <4>5 DEF InOrder
      <4> QED
        BY <4>3, <4>6, <4>7 DEF InOrder
    <3> QED
      BY <3>1, <3>2
  <2> QED
    BY <1>1, <1>4, <2>1, <2>2 DEF RoomStep, ForwardIntent, DiscardIntent, SendReturns, TaskEnds
<1>5. ASSUME NEW c \in Clients, CliStep(c) PROVE InOrder(q)'
  BY <1>1, <1>5 DEF CliStep, Issue, ReadReply, ClientKilled
<1>6. ASSUME NEW c \in Clients, ServerStep(c) PROVE InOrder(q)'
  <2>1. ASSUME NEW may, NEW next, DrainOr(c, may, next) PROVE InOrder(q)'
    BY <2>1 DEF DrainOr, InOrder
  <2> QED
    BY <1>1, <1>6, <2>1 DEF ServerStep, Accept, ServeQuery, ServeSend, ServeRecv, CloneNotify,
       Park, Recheck, WriteReply
<1> QED
  BY <1>1, <1>3, <1>4, <1>5, <1>6 DEF Next, vars

LEMMA HeldStep == IndInv /\ [Next]_vars => NothingHeldEarly'
<1> SUFFICES ASSUME IndInv, [Next]_vars, NEW d \in Clients
             PROVE  /\ server'[d] \notin {"replying", "written"} => reply'[d] = NoReply
                    /\ client'[d] = "idle" <=> server'[d] = "free"
  BY DEF NothingHeldEarly
<1> DEFINE Goal == /\ server'[d] \notin {"replying", "written"} => reply'[d] = NoReply
                   /\ client'[d] = "idle" <=> server'[d] = "free"
<1> USE DEF IndInv, TypeOK, Types, NothingHeldEarly
<1>1. CASE UNCHANGED <<server, client, reply>>
  BY <1>1
<1>2. CASE Boot
  BY <1>1, <1>2 DEF Boot, StartRoom, ConnectFails, ConnectSucceeds, StoreHandle, StartAccepting
<1>3. ASSUME NEW r \in Rooms, RoomStep(r) PROVE Goal
  <2>1. CASE PushMessage(r)
    BY <2>1 DEF PushMessage, ParkedOn
  <2> QED
    BY <1>1, <1>3, <2>1 DEF RoomStep, EmitSnapshot, ForwardIntent, DiscardIntent, SendReturns, TaskEnds
<1>4. ASSUME NEW c \in Clients, CliStep(c) PROVE Goal
  BY <1>4 DEF CliStep, Issue, ReadReply, ClientKilled, Close
<1>5. ASSUME NEW c \in Clients, ServerStep(c) PROVE Goal
  <2>1. CASE Accept(c) \/ CloneNotify(c) \/ Park(c)
    BY <2>1 DEF Accept, CloneNotify, Park
  <2>2. CASE ServeQuery(c) \/ ServeSend(c)
    BY <2>2 DEF ServeQuery, ServeSend, Respond
  <2>3. CASE ServeRecv(c)
    BY <2>3 DEF ServeRecv, DrainOr, Respond
  <2>4. CASE Recheck(c)
    BY <2>4 DEF Recheck, DrainOr, Respond
  <2>5. CASE WriteReply(c)
    BY <2>5 DEF WriteReply, Close
  <2> QED
    BY <1>5, <2>1, <2>2, <2>3, <2>4, <2>5 DEF ServerStep
<1> QED
  BY <1>1, <1>2, <1>3, <1>4, <1>5 DEF Next, vars

LEMMA IndInvInit == Init => IndInv
<1> SUFFICES ASSUME Init PROVE IndInv
  OBVIOUS
<1>1. \A r \in Rooms : InOrder(r)
  BY DEF Init, InOrder
<1>2. NothingHeldEarly
  BY DEF Init, NothingHeldEarly
<1> QED
  BY <1>1, <1>2, TypeInit DEF IndInv

LEMMA IndInvInvariant == Spec => []IndInv
<1>1. IndInv /\ [Next]_vars => IndInv'
  BY TypeStep, OrderStep, HeldStep DEF IndInv
<1> QED
  BY IndInvInit, <1>1, PTL DEF Spec

-----------------------------------------------------------------------------
(* Refinement: each step is, for each room, a mailbox step or a stutter.    *)

\* The unread slice is the numbers between the cursor and the log's end.
LEMMA UnreadIds ==
  ASSUME IndInv, NEW r \in Rooms
  PROVE  /\ Unread(r) \in Seq(Nat)
         /\ Len(Unread(r)) = Len(messages[r]) - cursor[r]
         /\ \A i \in 1 .. Len(messages[r]) - cursor[r] : Unread(r)[i] = cursor[r] + i
         /\ Range(Unread(r)) = (cursor[r] + 1) .. Len(messages[r])
         /\ Unread(r) = <<>> <=> cursor[r] = Len(messages[r])
<1> DEFINE m == messages[r]
           k == cursor[r]
           u == Unread(r)
<1>1. /\ m \in Seq(Nat) /\ k \in Nat /\ Len(m) \in Nat /\ k <= Len(m)
      /\ \A i \in 1 .. Len(m) : m[i] = i
  BY DEF IndInv, TypeOK, Types, InOrder
<1>2. u = SubSeq(m, k + 1, Len(m))
  BY DEF Unread
<1> HIDE DEF m, k, u
<1>3. /\ u \in Seq(Nat)
      /\ Len(u) = Len(m) - k
      /\ \A i \in 1 .. Len(m) - k : u[i] = k + i
  BY <1>1, <1>2
<1>4. DOMAIN u = 1 .. Len(m) - k
  BY <1>1, <1>3
<1>5. Range(u) = (k + 1) .. Len(m)
  <2>1. ASSUME NEW x \in Range(u) PROVE x \in (k + 1) .. Len(m)
    <3>1. PICK i \in 1 .. Len(m) - k : x = u[i]
      BY <1>4, <2>1 DEF Range
    <3>2. x = k + i /\ i \in Nat /\ 1 <= i /\ i <= Len(m) - k
      BY <1>1, <1>3, <3>1
    <3> QED
      BY <1>1, <3>2
  <2>2. ASSUME NEW x \in (k + 1) .. Len(m) PROVE x \in Range(u)
    <3>1. x - k \in 1 .. Len(m) - k /\ u[x - k] = x
      BY <1>1, <1>3, <2>2
    <3> QED
      BY <1>4, <3>1 DEF Range
  <2> QED
    BY <2>1, <2>2
<1>6. u = <<>> <=> k = Len(m)
  BY <1>1, <1>3
<1> QED
  BY <1>3, <1>5, <1>6 DEF m, k, u

\* The unread slice of a longer log is the longer unread slice.
LEMMA SubSeqOfAppend ==
  ASSUME NEW m \in Seq(Nat), NEW k \in Nat, k <= Len(m), NEW n \in Nat
  PROVE  SubSeq(Append(m, n), k + 1, Len(m) + 1) = Append(SubSeq(m, k + 1, Len(m)), n)
<1> DEFINE s == SubSeq(m, k + 1, Len(m))
           t == SubSeq(Append(m, n), k + 1, Len(m) + 1)
<1>1. /\ s \in Seq(Nat)
      /\ Len(s) = Len(m) - k
      /\ \A i \in 1 .. Len(m) - k : s[i] = m[k + i]
  OBVIOUS
<1>2. /\ Append(m, n) \in Seq(Nat)
      /\ Len(Append(m, n)) = Len(m) + 1
      /\ \A i \in 1 .. Len(m) + 1 : Append(m, n)[i] = IF i <= Len(m) THEN m[i] ELSE n
  OBVIOUS
<1>3. /\ t \in Seq(Nat)
      /\ Len(t) = Len(m) + 1 - k
      /\ \A i \in 1 .. Len(m) + 1 - k : t[i] = Append(m, n)[k + i]
  BY <1>2
<1> HIDE DEF s, t
<1>4. /\ Append(s, n) \in Seq(Nat)
      /\ Len(Append(s, n)) = Len(m) + 1 - k
      /\ \A i \in 1 .. Len(m) + 1 - k : Append(s, n)[i] = IF i <= Len(m) - k THEN s[i] ELSE n
  BY <1>1
<1>5. ASSUME NEW i \in 1 .. Len(t) PROVE t[i] = Append(s, n)[i]
  <2>0. Len(m) \in Nat /\ i \in 1 .. Len(m) + 1 - k /\ k + i \in 1 .. Len(m) + 1
    BY <1>3
  <2>1. t[i] = IF k + i <= Len(m) THEN m[k + i] ELSE n
    BY <1>2, <1>3, <2>0
  <2> QED
    BY <1>1, <1>4, <2>0, <2>1
<1>6. t = Append(s, n)
  BY <1>3, <1>4, <1>5, SeqEqual
<1> QED
  BY <1>6 DEF s, t

\* Closing a connection empties what it holds and touches nobody else's.
LEMMA CloseHeld ==
  ASSUME IndInv, NEW c \in Clients, NEW r \in Rooms, Close(c)
  PROVE  HeldFrom(r)' = [HeldFrom(r) EXCEPT ![c] = {}]
<1>1. reply' = [reply EXCEPT ![c] = NoReply] /\ req' = [req EXCEPT ![c] = NoRequest]
  BY DEF Close
<1>2. Range(NoReply.batch) = {}
  BY DEF NoReply, Range
<1>3. ASSUME NEW d \in Clients PROVE Held(d, r)' = IF d = c THEN {} ELSE Held(d, r)
  BY <1>1, <1>2 DEF IndInv, TypeOK, Types, Held
<1> QED
  BY <1>3 DEF HeldFrom

\* Responding puts the batch into the hands of one connection.
LEMMA RespondHeld ==
  ASSUME IndInv, NEW c \in Clients, NEW r \in Rooms, NEW kind, NEW batch,
         Respond(c, kind, batch), UNCHANGED req
  PROVE  HeldFrom(r)' = [HeldFrom(r) EXCEPT ![c] = IF req[c].room = r THEN Range(batch) ELSE {}]
  BY DEF IndInv, TypeOK, Types, Respond, HeldFrom, Held

\* A connection that is not answering holds nothing.
LEMMA NotAnswering ==
  ASSUME IndInv, NEW c \in Clients, server[c] \notin {"replying", "written"}
  PROVE  \A r \in Rooms : HeldFrom(r)[c] = {}
  BY DEF IndInv, NothingHeldEarly, HeldFrom, Held, NoReply, Range

MailboxStep(r) == Inbox(r)!Next \/ UNCHANGED Inbox(r)!vars

\* What changes neither the room nor what connections hold is a stutter.
LEMMA Stutter ==
  ASSUME NEW r \in Rooms, UNCHANGED <<messages, cursor, read, lost>>, HeldFrom(r)' = HeldFrom(r)
  PROVE  MailboxStep(r)
  BY DEF MailboxStep, Inbox!vars, Unread

LEMMA PushMaps ==
  ASSUME IndInv, NEW r \in Rooms, NEW q \in Rooms, PushMessage(q)
  PROVE  MailboxStep(r)
<1>0. HeldFrom(r)' = HeldFrom(r)
  BY DEF PushMessage, HeldFrom, Held
<1>1. CASE q # r
  <2>1. messages'[r] = messages[r] /\ cursor'[r] = cursor[r] /\ UNCHANGED <<read, lost>>
    BY <1>1 DEF PushMessage, IndInv, TypeOK, Types
  <2> QED
    BY <1>0, <2>1 DEF MailboxStep, Inbox!vars, Unread
<1>2. CASE q = r
  <2> DEFINE m == messages[r]
             k == cursor[r]
             n == Len(messages[r]) + 1
  <2>1. /\ messages'[r] = Append(m, Head(push[r])) /\ cursor'[r] = k /\ UNCHANGED <<read, lost>>
        /\ push[r] # <<>>
    BY <1>2 DEF PushMessage, IndInv, TypeOK, Types
  <2>2. Head(push[r]) = n
    BY <2>1 DEF IndInv, TypeOK, Types, InOrder
  <2>3. m \in Seq(Nat) /\ k \in Nat /\ k <= Len(m) /\ n = Len(m) + 1
    BY DEF IndInv, TypeOK, Types, InOrder
  <2>4. Unread(r) = SubSeq(m, k + 1, Len(m)) /\ Unread(r)' = SubSeq(Append(m, n), k + 1, Len(m) + 1)
    <3>1. /\ messages'[r] = Append(m, n)
          /\ cursor'[r] = k
          /\ Len(messages'[r]) = Len(m) + 1
      BY <2>1, <2>2, <2>3
    <3> QED
      BY <3>1 DEF Unread
  <2>5. Len(messages[r])' = Len(messages[r]) + 1
    BY <2>1, <2>3
  <2> HIDE DEF m, k, n
  <2>6. SubSeq(Append(m, n), k + 1, Len(m) + 1) = Append(SubSeq(m, k + 1, Len(m)), n)
    <3>1. n \in Nat
      BY <2>3
    <3> QED
      BY <2>3, <3>1, SubSeqOfAppend
  <2>7. Unread(r)' = Append(Unread(r), Len(messages[r]) + 1)
    BY <2>4, <2>6 DEF n
  <2> QED
    BY <1>0, <2>1, <2>5, <2>7 DEF MailboxStep, Inbox!Next, Inbox!Put
<1> QED
  BY <1>1, <1>2

\* drain_pending takes the whole unread queue into one connection's hands, or
\* finds nothing.
LEMMA DrainMaps ==
  ASSUME IndInv, NEW r \in Rooms, NEW c \in Clients, NEW may, NEW next,
         server[c] \in {"accepted", "woken"}, req[c].room \in Rooms, DrainOr(c, may, next)
  PROVE  MailboxStep(r)
<1> DEFINE q == req[c].room
<1>0. HeldFrom(r)[c] = {} /\ UNCHANGED <<messages, read, lost, req>>
  BY NotAnswering DEF DrainOr
<1>1. CASE q # r \/ Unread(r) = <<>>
  <2>1. cursor'[r] = cursor[r]
    BY <1>1, UnreadIds DEF DrainOr, IndInv, TypeOK, Types
  <2>2. HeldFrom(r)' = HeldFrom(r)
    <3>1. CASE Respond(c, "messages", Unread(q))
      <4>1. (IF q = r THEN Range(Unread(q)) ELSE {}) = {}
        BY <1>1 DEF Range
      <4>2. HeldFrom(r)' = [HeldFrom(r) EXCEPT ![c] = {}]
        BY <1>0, <3>1, <4>1, RespondHeld
      <4> QED
        BY <1>0, <4>2 DEF HeldFrom
    <3>2. CASE UNCHANGED reply
      BY <1>0, <3>2 DEF HeldFrom, Held
    <3> QED
      BY <3>1, <3>2 DEF DrainOr
  <2> QED
    BY <1>0, <2>1, <2>2 DEF MailboxStep, Inbox!vars, Unread
<1>2. CASE q = r /\ Unread(r) # <<>>
  <2>1. HeldFrom(r)' = [HeldFrom(r) EXCEPT ![c] = Range(Unread(r))]
    <3>1. Respond(c, "messages", Unread(r))
      BY <1>2 DEF DrainOr
    <3> QED
      BY <1>0, <1>2, <3>1, RespondHeld
  <2>2. Unread(r)' = <<>>
    <3>1. cursor'[r] = Len(messages[r]) /\ messages'[r] = messages[r]
      BY <1>0, <1>2 DEF DrainOr, IndInv, TypeOK, Types
    <3> QED
      BY <3>1 DEF Unread, IndInv, TypeOK, Types
  <2> QED
    <3>1. Inbox(r)!Take(c)
      BY <1>0, <1>2, <2>1, <2>2 DEF Inbox!Take, Inbox!Range, Range
    <3> QED
      BY <3>1 DEF MailboxStep, Inbox!Next
<1> QED
  BY <1>1, <1>2

\* Closing a connection settles what it held of each room.
LEMMA CloseMaps ==
  ASSUME IndInv, NEW r \in Rooms, NEW c \in Clients, Close(c), UNCHANGED <<messages, cursor>>,
         \/ read' = Settle(read, c) /\ UNCHANGED lost
         \/ lost' = Settle(lost, c) /\ UNCHANGED read
  PROVE  MailboxStep(r)
<1>1. HeldFrom(r)' = [HeldFrom(r) EXCEPT ![c] = {}]
  BY CloseHeld
<1>2. /\ HeldFrom(r)[c] = Held(c, r)
      /\ Unread(r)' = Unread(r)
      /\ messages'[r] = messages[r]
  BY DEF HeldFrom, Unread
<1>3. CASE Held(c, r) = {}
  <2>1. read'[r] = read[r] /\ lost'[r] = lost[r]
    BY <1>3 DEF Settle, IndInv, TypeOK, Types
  <2>2. HeldFrom(r)' = HeldFrom(r)
    BY <1>1, <1>2, <1>3 DEF HeldFrom
  <2> QED
    BY <1>2, <2>1, <2>2 DEF MailboxStep, Inbox!vars
<1>4. CASE Held(c, r) # {} /\ read' = Settle(read, c) /\ UNCHANGED lost
  <2>1. read'[r] = read[r] \cup HeldFrom(r)[c] /\ lost'[r] = lost[r]
    BY <1>2, <1>4 DEF Settle
  <2>2. Inbox(r)!Finish(c)
    BY <1>1, <1>2, <1>4, <2>1 DEF Inbox!Finish
  <2> QED
    BY <2>2 DEF MailboxStep, Inbox!Next
<1>5. CASE Held(c, r) # {} /\ lost' = Settle(lost, c) /\ UNCHANGED read
  <2>1. lost'[r] = lost[r] \cup HeldFrom(r)[c] /\ read'[r] = read[r]
    BY <1>2, <1>5 DEF Settle
  <2>2. Inbox(r)!Vanish(c)
    BY <1>1, <1>2, <1>5, <2>1 DEF Inbox!Vanish
  <2> QED
    BY <2>2 DEF MailboxStep, Inbox!Next
<1> QED
  BY <1>3, <1>4, <1>5

\* Answering without messages takes nothing.
LEMMA EmptyAnswerMaps ==
  ASSUME IndInv, NEW r \in Rooms, NEW c \in Clients, NEW kind, server[c] = "accepted",
         Respond(c, kind, <<>>), UNCHANGED <<req, messages, cursor, read, lost>>
  PROVE  MailboxStep(r)
<1>1. Range(<<>>) = {}
  BY DEF Range
<1>2. HeldFrom(r)' = [HeldFrom(r) EXCEPT ![c] = {}]
  BY <1>1, RespondHeld
<1>3. HeldFrom(r)' = HeldFrom(r)
  BY <1>2, NotAnswering DEF HeldFrom
<1> QED
  BY <1>3, Stutter

\* A new request is made on a connection that holds nothing.
LEMMA IssueMaps ==
  ASSUME IndInv, NEW r \in Rooms, NEW c \in Clients, NEW op, NEW name, Issue(c, op, name)
  PROVE  MailboxStep(r)
<1>1. reply[c] = NoReply /\ Range(NoReply.batch) = {}
  BY DEF Issue, IndInv, NothingHeldEarly, NoReply, Range
<1>2. ASSUME NEW d \in Clients PROVE Held(d, r)' = Held(d, r)
  BY <1>1 DEF Issue, Held, IndInv, TypeOK, Types
<1>3. HeldFrom(r)' = HeldFrom(r)
  BY <1>2 DEF HeldFrom
<1> QED
  BY <1>3, Stutter DEF Issue

LEMMA StepMaps == ASSUME NEW r \in Rooms PROVE IndInv /\ [Next]_vars => MailboxStep(r)
<1> SUFFICES ASSUME IndInv, [Next]_vars PROVE MailboxStep(r)
  OBVIOUS
<1>1. CASE UNCHANGED <<messages, cursor, read, lost, req, reply>>
  BY <1>1, Stutter DEF HeldFrom, Held
<1>2. CASE Boot
  BY <1>1, <1>2 DEF Boot, StartRoom, ConnectFails, ConnectSucceeds, StoreHandle, StartAccepting
<1>3. ASSUME NEW q \in Rooms, RoomStep(q) PROVE MailboxStep(r)
  BY <1>1, <1>3, PushMaps
     DEF RoomStep, EmitSnapshot, ForwardIntent, DiscardIntent, SendReturns, TaskEnds
<1>4. ASSUME NEW c \in Clients, CliStep(c) PROVE MailboxStep(r)
  <2>1. CASE ReadReply(c)
    BY <2>1, CloseMaps DEF ReadReply
  <2>2. CASE ClientKilled(c)
    BY <1>1, <2>2, CloseMaps DEF ClientKilled
  <2> QED
    BY <1>4, <2>1, <2>2, IssueMaps DEF CliStep
<1>5. ASSUME NEW c \in Clients, ServerStep(c) PROVE MailboxStep(r)
  <2>1. CASE ServeQuery(c)
    BY <2>1, EmptyAnswerMaps DEF ServeQuery
  <2>2. CASE ServeSend(c)
    BY <2>2, EmptyAnswerMaps DEF ServeSend
  <2>3. CASE ServeRecv(c)
    BY <2>3, DrainMaps DEF ServeRecv
  <2>4. CASE Recheck(c)
    <3>1. server[c] \in {"accepted", "woken"} /\ req[c].room \in Rooms 
      BY <2>4 DEF Recheck, IndInv, TypeOK, WaitsOnKnownRoom
    <3>2. PICK may \in BOOLEAN : DrainOr(c, may, "armed")
      BY <2>4 DEF Recheck
    <3> QED
      BY <3>1, <3>2, DrainMaps
  <2>5. CASE WriteReply(c)
    BY <1>1, <2>5, CloseMaps DEF WriteReply
  <2> QED
    BY <1>1, <1>5, <2>1, <2>2, <2>3, <2>4, <2>5 DEF ServerStep, Accept, CloneNotify, Park
<1> QED
  BY <1>1, <1>2, <1>3, <1>4, <1>5 DEF Next, vars

\* The daemon's rooms implement the mailbox.
THEOREM RoomsAreMailboxes == Spec => ImplementsMailbox
<1>1. Init => \A r \in Rooms : Inbox(r)!Init
  <2> SUFFICES ASSUME Init, NEW r \in Rooms PROVE Inbox(r)!Init
    OBVIOUS
  <2>1. /\ Len(messages[r]) = 0
        /\ Unread(r) = <<>>
        /\ read[r] = {}
        /\ lost[r] = {}
    BY DEF Init, Unread
  <2>2. HeldFrom(r) = [c \in Clients |-> {}]
    BY DEF Init, HeldFrom, Held, NoReply, Range
  <2> QED
    BY <2>1, <2>2 DEF Inbox!Init
<1>2. IndInv /\ [Next]_vars => \A r \in Rooms : Inbox(r)!Next \/ UNCHANGED Inbox(r)!vars
  BY StepMaps DEF MailboxStep
<1> QED
  BY <1>1, <1>2, IndInvInvariant, PTL DEF Spec, ImplementsMailbox

-----------------------------------------------------------------------------
(* Each message in one place: a consequence of the mailbox steps.           *)

\* Handing a fresh interval to a reader that holds nothing.
LEMMA TakeSplits ==
  ASSUME NEW k \in Nat, NEW n \in Nat, k <= n, NEW rd, NEW ls, NEW C, NEW c \in C,
         NEW hd, DOMAIN hd = C, hd[c] = {}, hd = [d \in C |-> hd[d]],
         Splits(1 .. k, rd, ls, hd)
  PROVE  Splits(1 .. n, rd, ls, [hd EXCEPT ![c] = (k + 1) .. n])
<1> DEFINE new == [hd EXCEPT ![c] = (k + 1) .. n]
<1>1. /\ DOMAIN new = C
      /\ new[c] = (k + 1) .. n
      /\ \A d \in C : d # c => new[d] = hd[d]
  OBVIOUS
<1>2. /\ rd \subseteq 1 .. k
      /\ ls \subseteq 1 .. k
      /\ \A d \in C : hd[d] \subseteq 1 .. k
      /\ (1 .. k) \cap ((k + 1) .. n) = {}
      /\ 1 .. n = (1 .. k) \cup ((k + 1) .. n)
  BY DEF Splits, Range
<1> HIDE DEF new
<1>3. 1 .. n = rd \cup ls \cup UNION Range(new)
  <2>1. UNION Range(new) = (UNION Range(hd)) \cup ((k + 1) .. n)
    BY <1>1 DEF Range
  <2> QED
    BY <1>2, <2>1 DEF Splits
<1>4. \A d \in C : new[d] \cap (rd \cup ls) = {}
  BY <1>1, <1>2 DEF Splits
<1>5. \A d, e \in C : d # e => new[d] \cap new[e] = {}
  BY <1>1, <1>2 DEF Splits
<1> QED
  BY <1>1, <1>3, <1>4, <1>5 DEF Splits, new

\* Moving what a reader holds to one of the two histories.
LEMMA SettleSplits ==
  ASSUME NEW all, NEW rd, NEW ls, NEW C, NEW c \in C, NEW hd, DOMAIN hd = C,
         hd = [d \in C |-> hd[d]], Splits(all, rd, ls, hd)
  PROVE  /\ Splits(all, rd \cup hd[c], ls, [hd EXCEPT ![c] = {}])
         /\ Splits(all, rd, ls \cup hd[c], [hd EXCEPT ![c] = {}])
<1> DEFINE new == [hd EXCEPT ![c] = {}]
<1>1. /\ DOMAIN new = C
      /\ new[c] = {}
      /\ \A d \in C : d # c => new[d] = hd[d]
  OBVIOUS
<1> HIDE DEF new
<1>2. UNION Range(hd) = (UNION Range(new)) \cup hd[c]
  BY <1>1 DEF Range
<1>3. /\ all = rd \cup ls \cup UNION Range(hd)
      /\ rd \cap ls = {}
      /\ \A d \in C : hd[d] \cap (rd \cup ls) = {}
      /\ \A d, e \in C : d # e => hd[d] \cap hd[e] = {}
  BY DEF Splits
<1>4. /\ all = (rd \cup hd[c]) \cup ls \cup UNION Range(new)
      /\ all = rd \cup (ls \cup hd[c]) \cup UNION Range(new)
  BY <1>2, <1>3
<1>5. (rd \cup hd[c]) \cap ls = {} /\ rd \cap (ls \cup hd[c]) = {}
  BY <1>3
<1>6. ASSUME NEW d \in C
      PROVE  /\ new[d] \cap ((rd \cup hd[c]) \cup ls) = {}
             /\ new[d] \cap (rd \cup (ls \cup hd[c])) = {}
  <2>1. CASE d = c
    BY <1>1, <2>1
  <2>2. CASE d # c
    <3>1. new[d] = hd[d] /\ hd[d] \cap (rd \cup ls) = {} /\ hd[d] \cap hd[c] = {}
      BY <1>1, <1>3, <2>2
    <3> QED
      BY <3>1
  <2> QED
    BY <2>1, <2>2
<1>7. ASSUME NEW d \in C, NEW e \in C, d # e PROVE new[d] \cap new[e] = {}
  BY <1>1, <1>3, <1>7
<1>8. /\ Splits(all, rd \cup hd[c], ls, new)
      /\ Splits(all, rd, ls \cup hd[c], new)
  BY <1>1, <1>4, <1>5, <1>6, <1>7 DEF Splits
<1> QED
  BY <1>8 DEF new

\* The unread tail of a log of which k elements were read.
LEMMA TailLength ==
  ASSUME NEW m \in Seq(Nat), NEW k \in Nat, k <= Len(m)
  PROVE  Len(SubSeq(m, k + 1, Len(m))) = Len(m) - k
  OBVIOUS

\* Splits restated in mailbox terms: all but the unread tail.
LEMMA PlaceStep ==
  ASSUME IndInv, IndInv', NEW r \in Rooms, MailboxStep(r),
         Splits(1 .. cursor[r], read[r], lost[r], HeldFrom(r))
  PROVE  Splits(1 .. cursor[r], read[r], lost[r], HeldFrom(r))'
<1>0. /\ cursor[r] \in Nat /\ cursor[r] = Len(messages[r]) - Len(Unread(r))
      /\ cursor'[r] \in Nat /\ cursor'[r] = Len(messages'[r]) - Len(Unread(r)')
      /\ Len(messages[r]) \in Nat /\ cursor[r] <= Len(messages[r])
      /\ Unread(r) \in Seq(Nat)
  <2>1. Len(Unread(r)) = Len(messages[r]) - cursor[r] /\ Unread(r) \in Seq(Nat)
    BY UnreadIds
  <2>2. /\ messages'[r] \in Seq(Nat) /\ cursor'[r] \in Nat /\ cursor'[r] <= Len(messages'[r])
        /\ messages[r] \in Seq(Nat) /\ cursor[r] \in Nat /\ cursor[r] <= Len(messages[r])
    BY DEF IndInv, TypeOK, Types, InOrder
  <2>3. Unread(r)' = SubSeq(messages'[r], cursor'[r] + 1, Len(messages'[r]))
    BY DEF Unread
  <2>4. Len(Unread(r)') = Len(messages'[r]) - cursor'[r]
    BY <2>2, <2>3, TailLength
  <2> DEFINE m == Len(messages[r])
             n == Len(messages'[r])
             u == Len(Unread(r))
             v == Len(Unread(r)')
  <2>5. m \in Nat /\ n \in Nat /\ u = m - cursor[r] /\ v = n - cursor'[r]
    BY <2>1, <2>2, <2>4
  <2> HIDE DEF m, n, u, v
  <2>6. cursor[r] = m - u /\ cursor'[r] = n - v
    BY <2>2, <2>5
  <2> QED
    BY <2>1, <2>2, <2>5, <2>6 DEF m, n, u, v
<1>h. DOMAIN HeldFrom(r) = Clients /\ HeldFrom(r) = [d \in Clients |-> HeldFrom(r)[d]]
  BY DEF HeldFrom
<1>1. CASE UNCHANGED Inbox(r)!vars
  <2>1. UNCHANGED <<Len(messages[r]), Unread(r), HeldFrom(r), read[r], lost[r]>>
    BY <1>1 DEF Inbox!vars
  <2>2. cursor'[r] = cursor[r]
    BY <1>0, <2>1
  <2> QED
    BY <2>1, <2>2
<1>2. CASE Inbox(r)!Put
  <2>1. /\ Len(messages'[r]) = Len(messages[r]) + 1
        /\ Unread(r)' = Append(Unread(r), Len(messages[r]) + 1)
        /\ UNCHANGED <<HeldFrom(r), read[r], lost[r]>>
    BY <1>2 DEF Inbox!Put
  <2> DEFINE u == Len(Unread(r))
             v == Len(Unread(r)')
             m == Len(messages[r])
             n == Len(messages'[r])
  <2>2. v = u + 1 /\ u \in Nat /\ m \in Nat /\ n = m + 1
    BY <1>0, <2>1
  <2>a. cursor[r] = m - u /\ cursor'[r] = n - v
    BY <1>0
  <2> HIDE DEF u, v, m, n
  <2>3. cursor'[r] = cursor[r]
    BY <2>2, <2>a
  <2> QED
    BY <2>1, <2>3
<1>3. ASSUME NEW c \in Clients, Inbox(r)!Take(c)
      PROVE  Splits(1 .. cursor[r], read[r], lost[r], HeldFrom(r))'
  <2>1. /\ HeldFrom(r)[c] = {}
        /\ HeldFrom(r)' = [HeldFrom(r) EXCEPT ![c] = Range(Unread(r))]
        /\ Unread(r)' = <<>>
        /\ UNCHANGED <<Len(messages[r]), read[r], lost[r]>>
    BY <1>3 DEF Inbox!Take, Inbox!Range, Range
  <2>2. cursor'[r] = Len(messages[r])
    BY <1>0, <2>1
  <2>3. Range(Unread(r)) = (cursor[r] + 1) .. Len(messages[r])
    BY UnreadIds
  <2>4. Splits(1 .. Len(messages[r]), read[r], lost[r],
               [HeldFrom(r) EXCEPT ![c] = (cursor[r] + 1) .. Len(messages[r])])
    BY <1>0, <1>h, <2>1, TakeSplits
  <2> QED
    BY <2>1, <2>2, <2>3, <2>4
<1>4. ASSUME NEW c \in Clients, Inbox(r)!Finish(c)
      PROVE  Splits(1 .. cursor[r], read[r], lost[r], HeldFrom(r))'
  <2>1. /\ HeldFrom(r)' = [HeldFrom(r) EXCEPT ![c] = {}]
        /\ read'[r] = read[r] \cup HeldFrom(r)[c]
        /\ UNCHANGED <<Len(messages[r]), Unread(r), lost[r]>>
    BY <1>4 DEF Inbox!Finish
  <2>2. cursor'[r] = cursor[r]
    BY <1>0, <2>1
  <2>3. Splits(1 .. cursor[r], read[r] \cup HeldFrom(r)[c], lost[r], [HeldFrom(r) EXCEPT ![c] = {}])
    BY <1>h, SettleSplits
  <2> QED
    BY <2>1, <2>2, <2>3
<1>5. ASSUME NEW c \in Clients, Inbox(r)!Vanish(c)
      PROVE  Splits(1 .. cursor[r], read[r], lost[r], HeldFrom(r))'
  <2>1. /\ HeldFrom(r)' = [HeldFrom(r) EXCEPT ![c] = {}]
        /\ lost'[r] = lost[r] \cup HeldFrom(r)[c]
        /\ UNCHANGED <<Len(messages[r]), Unread(r), read[r]>>
    BY <1>5 DEF Inbox!Vanish
  <2>2. cursor'[r] = cursor[r]
    BY <1>0, <2>1
  <2>3. Splits(1 .. cursor[r], read[r], lost[r] \cup HeldFrom(r)[c], [HeldFrom(r) EXCEPT ![c] = {}])
    BY <1>h, SettleSplits
  <2> QED
    BY <2>1, <2>2, <2>3
<1> QED
  BY <1>1, <1>2, <1>3, <1>4, <1>5 DEF MailboxStep, Inbox!Next

\* No message reaches two readers, and none below the cursor is forgotten.
THEOREM OneReaderPerMessage == Spec => []EachMessageInOnePlace
<1> DEFINE Placed == \A r \in Rooms : Splits(1 .. cursor[r], read[r], lost[r], HeldFrom(r))
<1>1. Init => Placed
  <2> SUFFICES ASSUME Init, NEW r \in Rooms
               PROVE  Splits(1 .. cursor[r], read[r], lost[r], HeldFrom(r))
    OBVIOUS
  <2>1. /\ 1 .. cursor[r] = {} /\ read[r] = {} /\ lost[r] = {}
        /\ HeldFrom(r) = [c \in Clients |-> {}]
    BY DEF Init, HeldFrom, Held, NoReply, Range
  <2> QED
    BY <2>1 DEF Splits, Range
<1>2. IndInv /\ IndInv' /\ Placed /\ [Next]_vars => Placed'
  BY StepMaps, PlaceStep
<1>3. IndInv /\ Placed => EachMessageInOnePlace
  BY DEF IndInv, InOrder, EachMessageInOnePlace
<1> QED
  BY <1>1, <1>2, <1>3, IndInvInvariant, PTL DEF Spec

-----------------------------------------------------------------------------
(* Batches: what a connection answers with.                                 *)

Consecutive(b) == \A i \in 1 .. Len(b) - 1 : b[i + 1] = b[i] + 1

\* What recv answers connection c with: consecutive messages, and some at all
\* if it waited.
GoodAnswer(c) ==
  /\ Consecutive(reply[c].batch)
  /\ (req[c].op = "recv_wait" /\ reply[c].kind = "messages") => reply[c].batch # <<>>

GoodAnswers == \A c \in Clients : GoodAnswer(c)

LEMMA NoReplyIsGood == Consecutive(NoReply.batch) /\ NoReply.kind = "sent"
  BY DEF Consecutive, NoReply

\* A drain answers with all that is unread, or does not answer.
LEMMA DrainAnswers ==
  ASSUME IndInv, \A d \in Clients : GoodAnswer(d), NEW c \in Clients, NEW may, NEW next,
         req[c].room \in Rooms, DrainOr(c, may, next), may => req[c].op = "recv_nowait"
  PROVE  \A d \in Clients : GoodAnswer(d)'
<1> SUFFICES ASSUME NEW d \in Clients PROVE GoodAnswer(d)'
  OBVIOUS
<1> DEFINE u == Unread(req[c].room)
<1>1. Consecutive(u)
  <2>1. /\ Len(u) = Len(messages[req[c].room]) - cursor[req[c].room]
        /\ \A i \in 1 .. Len(messages[req[c].room]) - cursor[req[c].room] :
             u[i] = cursor[req[c].room] + i
    BY UnreadIds
  <2>2. Len(messages[req[c].room]) \in Nat /\ cursor[req[c].room] \in Nat
    BY DEF IndInv, TypeOK, Types
  <2> DEFINE k == cursor[req[c].room]
             n == Len(messages[req[c].room])
  <2>3. k \in Nat /\ n \in Nat /\ Len(u) = n - k /\ \A i \in 1 .. n - k : u[i] = k + i
    BY <2>1, <2>2
  <2> HIDE DEF u, k, n
  <2>4. ASSUME NEW i \in 1 .. Len(u) - 1 PROVE u[i + 1] = u[i] + 1
    <3>1. i \in Nat /\ 1 <= i /\ i + 1 <= n - k
      BY <2>3
    <3>2. u[i] = k + i /\ u[i + 1] = k + (i + 1)
      BY <2>3, <3>1
    <3> QED
      BY <2>3, <3>1, <3>2
  <2> QED
    BY <2>4 DEF Consecutive
<1>2. UNCHANGED req
  BY DEF DrainOr
<1>3. CASE UNCHANGED reply
  BY <1>2, <1>3 DEF GoodAnswer
<1>4. CASE Respond(c, "messages", u) /\ (may \/ u # <<>>)
  <2>1. reply' = [reply EXCEPT ![c] = [kind |-> "messages", batch |-> u]]
    BY <1>4 DEF Respond
  <2>2. CASE d # c
    BY <1>2, <2>1, <2>2 DEF GoodAnswer
  <2>3. CASE d = c
    <3>1. reply'[d].batch = u
      BY <2>1, <2>3 DEF IndInv, TypeOK, Types
    <3> HIDE DEF u
    <3> QED
      BY <1>1, <1>2, <1>4, <2>3, <3>1 DEF GoodAnswer
  <2> QED
    BY <2>2, <2>3
<1> QED
  BY <1>3, <1>4 DEF DrainOr

LEMMA AnswerStep == IndInv /\ GoodAnswers /\ [Next]_vars => GoodAnswers'
<1> SUFFICES ASSUME IndInv, \A c \in Clients : GoodAnswer(c), [Next]_vars
             PROVE  \A d \in Clients : GoodAnswer(d)'
  BY DEF GoodAnswers
<1> DEFINE Goal == \A d \in Clients : GoodAnswer(d)'
<1>1. CASE UNCHANGED <<req, reply>>
  BY <1>1 DEF GoodAnswer
<1>2. ASSUME NEW c \in Clients, NEW kind, NEW batch, Respond(c, kind, batch), UNCHANGED req,
             batch = <<>>, kind # "messages"
      PROVE  Goal
  <2>1. reply' = [reply EXCEPT ![c] = [kind |-> kind, batch |-> batch]]
    BY <1>2 DEF Respond
  <2>2. reply'[c].kind = kind /\ Consecutive(reply'[c].batch)
    BY <1>2, <2>1 DEF IndInv, TypeOK, Types, Consecutive
  <2> QED
    BY <1>2, <2>1, <2>2 DEF GoodAnswer
<1>3. ASSUME NEW c \in Clients, Close(c) PROVE Goal
  <2> SUFFICES ASSUME NEW d \in Clients PROVE GoodAnswer(d)'
    OBVIOUS
  <2>1. CASE d = c
    BY <1>3, <2>1, NoReplyIsGood DEF Close, GoodAnswer, IndInv, TypeOK, Types
  <2>2. CASE d # c
    BY <1>3, <2>2 DEF Close, GoodAnswer
  <2> QED
    BY <2>1, <2>2
<1>4. CASE Boot
  BY <1>1, <1>4 DEF Boot, StartRoom, ConnectFails, ConnectSucceeds, StoreHandle, StartAccepting
<1>5. ASSUME NEW r \in Rooms, RoomStep(r) PROVE Goal
  BY <1>1, <1>5
     DEF RoomStep, EmitSnapshot, ForwardIntent, DiscardIntent, SendReturns, TaskEnds, PushMessage
<1>6. ASSUME NEW c \in Clients, NEW op, NEW name, Issue(c, op, name) PROVE Goal
  <2> SUFFICES ASSUME NEW d \in Clients PROVE GoodAnswer(d)'
    OBVIOUS
  <2>1. reply[c] = NoReply /\ UNCHANGED reply /\ req' = [req EXCEPT ![c] = [op |-> op, room |-> name]]
    BY <1>6 DEF Issue, IndInv, NothingHeldEarly
  <2>2. CASE d = c
    BY <2>1, <2>2, NoReplyIsGood DEF GoodAnswer
  <2>3. CASE d # c
    BY <2>1, <2>3 DEF GoodAnswer
  <2> QED
    BY <2>2, <2>3
<1>7. ASSUME NEW c \in Clients, CliStep(c) PROVE Goal
  BY <1>1, <1>3, <1>6, <1>7 DEF CliStep, ReadReply, ClientKilled
<1>8. ASSUME NEW c \in Clients, ServerStep(c) PROVE Goal
  <2>1. CASE ServeQuery(c)
    BY <1>2, <2>1 DEF ServeQuery
  <2>2. CASE ServeSend(c)
    BY <1>2, <2>2 DEF ServeSend
  <2>3. CASE ServeRecv(c)
    <3>1. DrainOr(c, req[c].op = "recv_nowait", "drained") /\ req[c].room \in Rooms
      BY <2>3 DEF ServeRecv
    <3> QED
      BY <3>1, DrainAnswers
  <2>4. CASE Recheck(c)
    <3>1. DrainOr(c, FALSE, "armed") /\ req[c].room \in Rooms
      BY <2>4 DEF Recheck, IndInv, TypeOK, WaitsOnKnownRoom
    <3> QED
      BY <3>1, DrainAnswers
  <2>5. CASE WriteReply(c)
    BY <1>1, <1>3, <2>5 DEF WriteReply
  <2> QED
    BY <1>1, <1>8, <2>1, <2>2, <2>3, <2>4, <2>5 DEF ServerStep, Accept, CloneNotify, Park
<1> QED
  BY <1>1, <1>4, <1>5, <1>7, <1>8 DEF Next, vars

LEMMA AnswersAreGood == Spec => []GoodAnswers
<1>1. Init => GoodAnswers
  BY NoReplyIsGood DEF Init, GoodAnswers, GoodAnswer
<1> QED
  BY <1>1, AnswerStep, IndInvInvariant, PTL DEF Spec

\* A recv that waits is never answered empty, whoever else drains the room.
THEOREM WaitersGetNews == Spec => []WaitingReaderGetsNews
<1>1. GoodAnswers => WaitingReaderGetsNews
  BY DEF GoodAnswers, GoodAnswer, WaitingReaderGetsNews
<1> QED
  BY <1>1, AnswersAreGood, PTL

\* Two counting sequences, one after the other, count on.
LEMMA CountingOn ==
  ASSUME NEW m \in Seq(Nat), NEW p \in Seq(Nat),
         \A i \in 1 .. Len(m) : m[i] = i,
         \A i \in 1 .. Len(p) : p[i] = Len(m) + i
  PROVE  m \o p = [i \in 1 .. Len(m) + Len(p) |-> i]
<1> DEFINE s == m \o p
           t == [i \in 1 .. Len(m) + Len(p) |-> i]
<1>1. /\ s \in Seq(Nat)
      /\ Len(s) = Len(m) + Len(p)
      /\ \A i \in 1 .. Len(m) + Len(p) : s[i] = IF i <= Len(m) THEN m[i] ELSE p[i - Len(m)]
  OBVIOUS
<1>2. /\ Len(m) \in Nat /\ Len(p) \in Nat
      /\ t \in Seq(Nat) /\ Len(t) = Len(m) + Len(p)
      /\ \A i \in 1 .. Len(m) + Len(p) : t[i] = i
  OBVIOUS
<1> HIDE DEF s, t
<1>3. ASSUME NEW i \in 1 .. Len(s) PROVE s[i] = t[i]
  <2>0. i \in 1 .. Len(m) + Len(p) /\ i \in Int /\ t[i] = i
    BY <1>1, <1>2
  <2>1. CASE i <= Len(m)
    <3>1. s[i] = m[i] /\ i \in 1 .. Len(m)
      BY <1>1, <1>2, <2>0, <2>1
    <3>2. m[i] = i
      BY <3>1
    <3> QED
      BY <2>0, <3>1, <3>2
  <2>2. CASE ~(i <= Len(m))
    <3>1. s[i] = p[i - Len(m)]
      BY <1>1, <2>0, <2>2
    <3>2. i - Len(m) \in 1 .. Len(p)
      BY <1>2, <2>0, <2>2
    <3>3. p[i - Len(m)] = Len(m) + (i - Len(m))
      BY <3>2
    <3> QED
      BY <1>2, <2>0, <3>1, <3>3
  <2> QED
    BY <2>1, <2>2
<1>4. s = t
  BY <1>1, <1>2, <1>3, SeqEqual
<1> QED
  BY <1>4 DEF s, t

\* Log and channel are what was emitted, in order, and batches are runs of it.
THEOREM OrderIsKept == Spec => []SnapshotsStayInOrder
<1>1. ASSUME IndInv, NEW r \in Rooms PROVE messages[r] \o push[r] = [i \in 1 .. emitted[r] |-> i]
  <2>1. /\ messages[r] \in Seq(Nat) /\ push[r] \in Seq(Nat)
        /\ \A i \in 1 .. Len(messages[r]) : messages[r][i] = i
        /\ \A i \in 1 .. Len(push[r]) : push[r][i] = Len(messages[r]) + i
        /\ emitted[r] = Len(messages[r]) + Len(push[r])
    BY <1>1 DEF IndInv, TypeOK, Types, InOrder
  <2> QED
    BY <2>1, CountingOn
<1>2. IndInv /\ GoodAnswers => SnapshotsStayInOrder
  <2> SUFFICES ASSUME IndInv, GoodAnswers PROVE SnapshotsStayInOrder
    OBVIOUS
  <2>1. \A r \in Rooms : messages[r] \o push[r] = [i \in 1 .. emitted[r] |-> i]
    BY <1>1
  <2>2. \A c \in Clients : Consecutive(reply[c].batch)
    BY DEF GoodAnswers, GoodAnswer
  <2> QED
    BY <2>1, <2>2 DEF Consecutive, SnapshotsStayInOrder
<1> QED
  BY <1>2, AnswersAreGood, IndInvInvariant, PTL

-----------------------------------------------------------------------------
(* Intents: every number up to n was forwarded (f), was dropped (d) or is in *)
(* the queue q, and only one of the three.                                   *)

Accounted(n, f, d, q) ==
  /\ 1 .. n = f \cup d \cup Range(q)
  /\ f \cap d = {}
  /\ \A i \in f \cup d, j \in Range(q) : i < j
  /\ Sorted(q)

\* Appending a number above all others keeps a queue sorted.
LEMMA AppendSorted ==
  ASSUME NEW q \in Seq(Nat), NEW n \in Nat, Sorted(q), \A i \in Range(q) : i < n
  PROVE  Sorted(Append(q, n)) /\ Range(Append(q, n)) = Range(q) \cup {n}
<1> DEFINE a == Append(q, n)
<1>1. /\ DOMAIN q = 1 .. Len(q) /\ Len(q) \in Nat
      /\ DOMAIN a = 1 .. Len(q) + 1
      /\ \A i \in 1 .. Len(q) : a[i] = q[i] /\ q[i] \in Nat
      /\ a[Len(q) + 1] = n
  OBVIOUS
<1> HIDE DEF a
<1>2. \A i \in 1 .. Len(q) : q[i] < n
  BY <1>1 DEF Range
<1>3. Sorted(a)
  BY <1>1, <1>2 DEF Sorted
<1>4. Range(a) = Range(q) \cup {n}
  <2>1. DOMAIN a = DOMAIN q \cup {Len(q) + 1}
    BY <1>1
  <2> QED
    BY <1>1, <2>1 DEF Range
<1> QED
  BY <1>3, <1>4 DEF a

\* The head of a sorted queue is below the rest of it.
LEMMA HeadSorted ==
  ASSUME NEW q \in Seq(Nat), q # <<>>, Sorted(q)
  PROVE  /\ Sorted(Tail(q))
         /\ Range(q) = {Head(q)} \cup Range(Tail(q))
         /\ \A j \in Range(Tail(q)) : Head(q) < j
<1> DEFINE t == Tail(q)
<1>1. /\ DOMAIN q = 1 .. Len(q) /\ Len(q) \in Nat /\ Len(q) # 0
      /\ DOMAIN t = 1 .. Len(q) - 1
      /\ \A i \in 1 .. Len(q) - 1 : t[i] = q[i + 1]
      /\ Head(q) = q[1]
  OBVIOUS
<1> HIDE DEF t
<1>2. Sorted(t)
  <2> SUFFICES ASSUME NEW i \in DOMAIN t, NEW j \in DOMAIN t, i < j PROVE t[i] < t[j]
    BY DEF Sorted
  <2>1. i + 1 \in DOMAIN q /\ j + 1 \in DOMAIN q /\ i + 1 < j + 1
    BY <1>1
  <2> QED
    BY <1>1, <2>1 DEF Sorted
<1>3. ASSUME NEW x PROVE x \in Range(q) <=> x = q[1] \/ x \in Range(t)
  <2>1. ASSUME x \in Range(t) PROVE x \in Range(q)
    <3>1. PICK i \in 1 .. Len(q) - 1 : x = t[i]
      BY <1>1, <2>1 DEF Range
    <3>2. x = q[i + 1] /\ i + 1 \in 1 .. Len(q)
      BY <1>1, <3>1
    <3> QED
      BY <1>1, <3>2 DEF Range
  <2>2. ASSUME x \in Range(q), x # q[1] PROVE x \in Range(t)
    <3>1. PICK i \in 1 .. Len(q) : x = q[i]
      BY <1>1, <2>2 DEF Range
    <3>2. i - 1 \in 1 .. Len(q) - 1 /\ t[i - 1] = q[(i - 1) + 1]
      BY <1>1, <2>2, <3>1
    <3>3. x = t[i - 1]
      BY <3>1, <3>2
    <3> QED
      BY <1>1, <3>2, <3>3 DEF Range
  <2>3. q[1] \in Range(q)
    <3>1. 1 \in DOMAIN q
      BY <1>1
    <3> QED
      BY <3>1 DEF Range
  <2> QED
    BY <2>1, <2>2, <2>3
<1>4. ASSUME NEW j \in Range(t) PROVE q[1] < j
  <2>1. PICK i \in 1 .. Len(q) - 1 : j = t[i]
    BY <1>1 DEF Range
  <2>2. j = q[i + 1] /\ i + 1 \in DOMAIN q /\ 1 \in DOMAIN q /\ 1 < i + 1
    BY <1>1, <2>1
  <2> QED
    BY <2>2 DEF Sorted
<1> QED
  BY <1>1, <1>2, <1>3, <1>4 DEF t

\* Accepting, taking and giving up intents.
LEMMA AccountAppend ==
  ASSUME NEW n \in Nat, NEW f, NEW d, NEW q \in Seq(Nat), Accounted(n, f, d, q)
  PROVE  Accounted(n + 1, f, d, Append(q, n + 1))
<1>1. \A i \in f \cup d \cup Range(q) : i \in Nat /\ i < n + 1
  BY DEF Accounted
<1>2. Sorted(Append(q, n + 1)) /\ Range(Append(q, n + 1)) = Range(q) \cup {n + 1}
  BY <1>1, AppendSorted DEF Accounted
<1>3. 1 .. n + 1 = (1 .. n) \cup {n + 1}
  OBVIOUS
<1> QED
  BY <1>1, <1>2, <1>3 DEF Accounted

LEMMA AccountRefused ==
  ASSUME NEW n \in Nat, NEW f, NEW d, Accounted(n, f, d, <<>>)
  PROVE  Accounted(n + 1, f, d \cup {n + 1}, <<>>)
<1>1. Range(<<>>) = {} /\ 1 .. n + 1 = (1 .. n) \cup {n + 1} /\ n + 1 \notin 1 .. n
  BY DEF Range
<1> QED
  BY <1>1 DEF Accounted

LEMMA AccountTake ==
  ASSUME NEW n \in Nat, NEW f, NEW d, NEW q \in Seq(Nat), q # <<>>, Accounted(n, f, d, q)
  PROVE  /\ Accounted(n, f \cup {Head(q)}, d, Tail(q))
         /\ Accounted(n, f, d \cup {Head(q)}, Tail(q))
<1>1. /\ Sorted(Tail(q))
      /\ Range(q) = {Head(q)} \cup Range(Tail(q))
      /\ \A j \in Range(Tail(q)) : Head(q) < j
  BY HeadSorted DEF Accounted
<1>2. Head(q) \in Nat /\ Head(q) \notin f \cup d
  <2>1. Head(q) \in Nat /\ Head(q) \in Range(q)
    BY <1>1, QueueTypes
  <2> QED
    BY <2>1 DEF Accounted
<1> QED
  BY <1>1, <1>2 DEF Accounted

LEMMA AccountEnd ==
  ASSUME NEW n \in Nat, NEW f, NEW d, NEW q \in Seq(Nat), Accounted(n, f, d, q)
  PROVE  Accounted(n, f, d \cup Range(q), <<>>)
<1>1. Range(<<>>) = {} /\ Sorted(<<>>)
  BY DEF Range, Sorted
<1>2. f \cap Range(q) = {}
  BY DEF Accounted
<1> QED
  BY <1>1, <1>2 DEF Accounted

\* A task that has ended has no queue any more.
IntentsAccounted ==
  \A r \in Rooms :
    /\ Accounted(sent[r], forwarded[r], dropped[r], intents[r])
    /\ task[r] = "dead" => intents[r] = <<>>

LEMMA IntentStep == TypeOK /\ IntentsAccounted /\ [Next]_vars => IntentsAccounted'
<1> SUFFICES ASSUME TypeOK, IntentsAccounted, [Next]_vars, NEW q \in Rooms
             PROVE  /\ Accounted(sent[q], forwarded[q], dropped[q], intents[q])'
                    /\ task'[q] = "dead" => intents'[q] = <<>>
  BY DEF IntentsAccounted
<1> DEFINE Goal == /\ Accounted(sent[q], forwarded[q], dropped[q], intents[q])'
                   /\ task'[q] = "dead" => intents'[q] = <<>>
<1>0. /\ Accounted(sent[q], forwarded[q], dropped[q], intents[q])
      /\ task[q] = "dead" => intents[q] = <<>>
      /\ sent[q] \in Nat /\ intents[q] \in Seq(Nat)
  BY DEF IntentsAccounted, TypeOK, Types
<1>1. ASSUME UNCHANGED <<sent[q], forwarded[q], dropped[q], intents[q]>>, task'[q] # "dead" \/ UNCHANGED task[q]
      PROVE  Goal
  BY <1>0, <1>1
<1>2. CASE Boot
  <2>1. CASE ConnectSucceeds
    BY <1>1, <2>1 DEF ConnectSucceeds, TypeOK, Types
  <2> QED
    BY <1>1, <1>2, <2>1 DEF Boot, StartRoom, ConnectFails, StoreHandle, StartAccepting
<1>3. ASSUME NEW r \in Rooms, RoomStep(r) PROVE Goal
  <2>1. CASE r # q
    BY <1>1, <1>3, <2>1 DEF RoomStep, EmitSnapshot, ForwardIntent, DiscardIntent, SendReturns, TaskEnds,
       PushMessage, TypeOK, Types
  <2>2. CASE r = q /\ ForwardIntent(r)
    <3>1. /\ intents[q] # <<>> /\ intents'[q] = Tail(intents[q]) /\ UNCHANGED <<sent, dropped>>
          /\ forwarded'[q] = forwarded[q] \cup {Head(intents[q])} /\ task'[q] = "sending"
      BY <2>2 DEF ForwardIntent, TypeOK, Types
    <3>2. Accounted(sent[q], forwarded[q] \cup {Head(intents[q])}, dropped[q], Tail(intents[q]))
      BY <1>0, <3>1, AccountTake
    <3> QED
      BY <3>1, <3>2
  <2>3. CASE r = q /\ DiscardIntent(r)
    <3>1. /\ intents[q] # <<>> /\ intents'[q] = Tail(intents[q]) /\ UNCHANGED <<sent, forwarded, task>>
          /\ dropped'[q] = dropped[q] \cup {Head(intents[q])} /\ task[q] = "selecting"
      BY <2>3 DEF DiscardIntent, TypeOK, Types
    <3>2. Accounted(sent[q], forwarded[q], dropped[q] \cup {Head(intents[q])}, Tail(intents[q]))
      BY <1>0, <3>1, AccountTake
    <3> QED
      BY <3>1, <3>2
  <2>4. CASE r = q /\ TaskEnds(r)
    <3>1. /\ intents'[q] = <<>> /\ UNCHANGED <<sent, forwarded>>
          /\ dropped'[q] = dropped[q] \cup Range(intents[q])
      BY <2>4 DEF TaskEnds, TypeOK, Types
    <3> QED
      BY <1>0, <3>1, AccountEnd
  <2>5. CASE r = q /\ SendReturns(r)
    BY <1>1, <2>5 DEF SendReturns, TypeOK, Types
  <2>6. CASE EmitSnapshot(r) \/ PushMessage(r)
    BY <1>1, <2>6 DEF EmitSnapshot, PushMessage
  <2> QED
    BY <1>3, <2>1, <2>2, <2>3, <2>4, <2>5, <2>6 DEF RoomStep
<1>4. ASSUME NEW c \in Clients, CliStep(c) PROVE Goal
  BY <1>1, <1>4 DEF CliStep, Issue, ReadReply, ClientKilled
<1>5. ASSUME NEW c \in Clients, ServerStep(c) PROVE Goal
  <2>1. CASE ServeSend(c) /\ req[c].room = q /\ handle[q]
    <3>1. CASE task[q] = "dead"
      <4>1. /\ sent'[q] = sent[q] + 1 /\ dropped'[q] = dropped[q] \cup {sent[q] + 1}
            /\ UNCHANGED <<forwarded, intents, task>>
        BY <2>1, <3>1 DEF ServeSend, TypeOK, Types
      <4> QED
        BY <1>0, <3>1, <4>1, AccountRefused
    <3>2. CASE task[q] # "dead"
      <4>1. /\ sent'[q] = sent[q] + 1 /\ intents'[q] = Append(intents[q], sent[q] + 1)
            /\ UNCHANGED <<forwarded, dropped, task>>
        BY <2>1, <3>2 DEF ServeSend, TypeOK, Types
      <4> QED
        BY <1>0, <3>2, <4>1, AccountAppend
    <3> QED
      BY <3>1, <3>2
  <2>2. CASE ServeSend(c) /\ ~(req[c].room = q /\ handle[q])
    <3>1. UNCHANGED <<sent[q], forwarded, dropped[q], intents[q], task>>
      BY <2>2 DEF ServeSend, TypeOK, Types
    <3> QED
      BY <1>1, <3>1
  <2> QED
    BY <1>1, <1>5, <2>1, <2>2 DEF ServerStep, Accept, ServeQuery, ServeRecv, CloneNotify, Park, Recheck,
       WriteReply, DrainOr
<1>6. CASE UNCHANGED vars
  BY <1>1, <1>6 DEF vars
<1> QED
  BY <1>2, <1>3, <1>4, <1>5, <1>6 DEF Next

\* Each accepted intent is queued, was handed over in order, or was dropped.
THEOREM IntentsAreAccountedFor == Spec => []EachIntentInOnePlace
<1>1. Init => IntentsAccounted
  BY DEF Init, IntentsAccounted, Accounted, Sorted, Range
<1>2. IntentsAccounted => EachIntentInOnePlace
  BY DEF IntentsAccounted, Accounted, Sorted, EachIntentInOnePlace
<1> QED
  BY <1>1, <1>2, IntentStep, TypeCorrect, PTL DEF Spec

=============================================================================
