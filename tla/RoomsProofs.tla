----------------------------- MODULE RoomsProofs -----------------------------
(***************************************************************************)
(* What Rooms promises its clients, proved for any number of connections,  *)
(* requests and lines, and any capacity of the channel and the sockets.    *)
(*                                                                         *)
(* What a client is going to hear is a line: what it heard last, what is   *)
(* on its socket, what its handler is writing, then the broadcasts it is   *)
(* behind.  Along that line no snapshot is older than one before it, and   *)
(* its last snapshot is the last the channel has.                          *)
(***************************************************************************)
EXTENDS Rooms, SequenceLemmas

\* The newest k of t numbered messages or lines.
Window(t, k) == LET n == IF t < k THEN t ELSE k IN [i \in 1 .. n |-> t - n + i]

\* What program e shows when t were said or logged.
ViewOf(e, t, r) ==
  IF e = "process" THEN [lines |-> Window(t, MaxLines), running |-> r]
  ELSE [messages |-> Window(t, IF e = "chat" THEN Recent ELSE Keep)]

\* The messages of program e until n were said or logged.
Replies == {Message(kind) : kind \in {"manifest", "system", "transfer", "error", "pong"}}
Views(e, n) == {Snapshot(ViewOf(e, t, r)) : t \in 0 .. n, r \in BOOLEAN}
Wired(e, n) == Replies \cup Views(e, n)

Snap(m) == m.kind = "snapshot"

\* How far snapshot m goes.
Age(e, m) == IF e = "process" THEN P!Latest(m) ELSE C!Latest(m)

Before(e, m, x) == Snap(m) /\ Snap(x) => Age(e, m) <= Age(e, x)

\* A client's line: h was heard, o is on the socket, w is being written.
Line(e, M, h, o, w) ==
  /\ h \in M \cup {Nothing} /\ o \in Seq(M) /\ w \in M \cup {Nothing}
  /\ \A i, j \in 1 .. Len(o) : i < j => Before(e, o[i], o[j])
  /\ \A i \in 1 .. Len(o) : Before(e, h, o[i]) /\ Before(e, o[i], w)
  /\ Before(e, h, w)

\* x may follow on the line.
Ahead(e, h, o, w, x) ==
  /\ Before(e, h, x) /\ Before(e, w, x)
  /\ \A i \in 1 .. Len(o) : Before(e, o[i], x)

\* x is the last snapshot on the line.
Ends(h, o, w, x) ==
  \/ w = x
  \/ /\ ~ Snap(w)
     /\ \E i \in 1 .. Len(o) : o[i] = x /\ \A j \in 1 .. Len(o) : j > i => ~ Snap(o[j])
  \/ /\ ~ Snap(w)
     /\ \A j \in 1 .. Len(o) : ~ Snap(o[j])
     /\ h = x

\* The broadcasts a receives that is b behind may follow.
Pending(e, h, o, w, a, b) ==
  \A k \in 1 .. Len(a) : k + b > Len(a) => Ahead(e, h, o, w, a[k])

LastSnap(a, k) == Snap(a[k]) /\ \A j \in 1 .. Len(a) : j > k => ~ Snap(a[j])

\* The last snapshot broadcast since s is still to be received, or ends the line.
UpToDate(h, o, w, a, b, s) ==
  \A k \in 1 .. Len(a) : LastSnap(a, k) /\ k + s > Len(a) /\ k + b <= Len(a) => Ends(h, o, w, a[k])

Channel(e, M, a) ==
  /\ a \in Seq(M) /\ Len(a) <= Capacity
  /\ \A i, j \in 1 .. Len(a) : i < j => Before(e, a[i], a[j])

Counts(a, b, s) ==
  /\ b \in 0 .. Capacity + 1 /\ s \in 0 .. Len(a)
  /\ b > s => s = Capacity

Asks == {"intent", "transfer", "ping"}

\* Where a handler may be that waits for a write.
Waits == {"announce", "snapshot", "subscribe", "loop"}

\* One connection: where its handler stands, its line and its receiver.
Connection(e, M, st, w, g, i, o, b, s, cl, h, a) ==
  /\ Line(e, M, h, o, w) /\ Counts(a, b, s)
  /\ i \in Seq(Asks) /\ Len(i) <= Buffer /\ Len(o) <= Buffer
  /\ w = Nothing => g = "none"
  /\ w # Nothing => st \in Waits
  /\ cl = "none" => st = "away"
  /\ h = Nothing \/ Snap(h)
  /\ st \in {"loop", "posted"} => Pending(e, h, o, w, a, b)
  /\ st \in {"loop", "posted"} /\ cl \notin {"closed", "refused"} => UpToDate(h, o, w, a, b, s)

\* The sessions of program e, when M are its messages.
Shapes(M) ==
  /\ step \in [Conns -> Steps] /\ writing \in [Conns -> M \cup {Nothing}]
  /\ holds \in [Conns -> {"none", "read", "write"}]
  /\ inbox \in [Conns -> Seq(Asks)] /\ outbox \in [Conns -> Seq(M)]
  /\ behind \in [Conns -> Nat] /\ since \in [Conns -> Nat]
  /\ client \in [Conns -> ClientSteps] /\ heard \in [Conns -> M \cup {Nothing}]

ConnectionOf(c, e, M) ==
  Connection(e, M, step[c], writing[c], holds[c], inbox[c], outbox[c], behind[c], since[c], client[c], heard[c], aired)

SessionsOf(e, M) ==
  /\ Shapes(M)
  /\ Channel(e, M, aired)
  /\ \A c \in Conns : ConnectionOf(c, e, M)

SessionsInv == SessionsOf(example, Wired(example, Newest))

\* The last snapshot the channel has is x.
AiredLast(a, x) == \A k \in 1 .. Len(a) : LastSnap(a, k) => a[k] = x

\* What process-client printed of the first t lines, and when it heard h.
Printed(p, t) ==
  /\ p \in Seq(1 .. t) /\ Rises(p)
  /\ t <= MaxLines => Len(p) = t

Prints(h, p, n) ==
  /\ n = IF h = Nothing THEN 0 ELSE Len(h.data.lines)
  /\ Printed(p, Age("process", h))

\* Not in the room: not yet, or no longer.
Out == {"away", "left", "gone"}
Served == {c \in Conns : step[c] \notin Out}

\* No message was added that is still to be broadcast.
Quiet == \A c \in Conns : step[c] # "posted"

ChatInv ==
  /\ SessionsInv
  /\ said \in Nat /\ messages = Window(said, Keep)
  /\ requested \in 0 .. MaxRequests
  /\ users = Served
  /\ AiredLast(aired, Snapshot(ViewOf("chat", said, TRUE)))

WebchatInv ==
  /\ SessionsInv
  /\ said \in Nat /\ messages = Window(said, Keep)
  /\ requested \in 0 .. MaxRequests
  /\ Quiet => AiredLast(aired, Snapshot(ViewOf("webchat", said, TRUE)))

ProcessInv ==
  /\ SessionsInv
  /\ logged \in Nat /\ lines = Window(logged, MaxLines)
  /\ running \in BOOLEAN
  /\ updates \in Nat /\ updates <= logged + (IF running THEN 0 ELSE 1)
  /\ requested \in 0 .. MaxInputs
  /\ updates = 0 => AiredLast(aired, Snapshot(ViewOf("process", logged, running)))
  /\ DOMAIN printed = Conns /\ DOMAIN seen = Conns
  /\ \A c \in Conns : Prints(heard[c], printed[c], seen[c])

RoomsInv ==
  /\ example = "chat" => ChatInv
  /\ example = "webchat" => WebchatInv
  /\ example = "process" => ProcessInv

-----------------------------------------------------------------------------
(* Lines *)

LEMMA NothingIs == ~ Snap(Nothing)
BY DEF Snap, Nothing, Message

\* What a line is: its types, and what Before, Ahead and Ends say of each place.
LEMMA LineSends ==
  ASSUME NEW e, NEW M, NEW h, NEW o, Line(e, M, h, o, Nothing), NEW m \in M, Ahead(e, h, o, Nothing, m)
  PROVE  /\ Line(e, M, h, Append(o, m), Nothing) /\ Line(e, M, h, o, m)
         /\ Len(Append(o, m)) = Len(o) + 1
         /\ \A x : Ahead(e, h, o, Nothing, x) /\ Before(e, m, x)
                     => Ahead(e, h, Append(o, m), Nothing, x) /\ Ahead(e, h, o, m, x)
         /\ \A x : Ends(h, o, Nothing, x) /\ Snap(x) /\ ~ Snap(m)
                     => Ends(h, Append(o, m), Nothing, x) /\ Ends(h, o, m, x)
         /\ Snap(m) => Ends(h, Append(o, m), Nothing, m) /\ Ends(h, o, m, m)
<1> USE NothingIs
<1>1. o \in Seq(M) /\ Len(o) \in Nat
  BY DEF Line
<1> DEFINE r == Append(o, m)
<1>2. /\ r \in Seq(M) /\ Len(r) = Len(o) + 1 /\ r[Len(o) + 1] = m
      /\ \A i \in 1 .. Len(o) : r[i] = o[i]
  BY <1>1, AppendProperties
<1>3. /\ \A i \in 1 .. Len(r) : i \in 1 .. Len(o) \/ i = Len(r)
      /\ \A i \in 1 .. Len(o) : i \in 1 .. Len(r) /\ i < Len(r)
      /\ \A i, j \in 1 .. Len(r) : i < j => i \in 1 .. Len(o)
      /\ Len(r) \in 1 .. Len(r) /\ r[Len(r)] = m
  BY <1>1, <1>2
<1> HIDE DEF r
<1>4. \A x : Before(e, Nothing, x) /\ Before(e, x, Nothing)
  BY DEF Before
<1>5. Line(e, M, h, r, Nothing)
  BY <1>2, <1>3, <1>4 DEF Line, Ahead
<1>6. Line(e, M, h, o, m)
  BY <1>4 DEF Line, Ahead
<1>7. ASSUME NEW x, Ahead(e, h, o, Nothing, x), Before(e, m, x)
      PROVE  Ahead(e, h, r, Nothing, x) /\ Ahead(e, h, o, m, x)
  BY <1>2, <1>3, <1>7 DEF Ahead
<1>8. ASSUME NEW x, Ends(h, o, Nothing, x), Snap(x), ~ Snap(m)
      PROVE  Ends(h, r, Nothing, x) /\ Ends(h, o, m, x)
  <2>1. \/ \E i \in 1 .. Len(o) : o[i] = x /\ \A j \in 1 .. Len(o) : j > i => ~ Snap(o[j])
        \/ (\A j \in 1 .. Len(o) : ~ Snap(o[j])) /\ h = x
    BY <1>8 DEF Ends
  <2>2. CASE \E i \in 1 .. Len(o) : o[i] = x /\ \A j \in 1 .. Len(o) : j > i => ~ Snap(o[j])
    <3>1. PICK i \in 1 .. Len(o) : o[i] = x /\ \A j \in 1 .. Len(o) : j > i => ~ Snap(o[j])
      BY <2>2
    <3>2. i \in 1 .. Len(r) /\ r[i] = x /\ \A j \in 1 .. Len(r) : j > i => ~ Snap(r[j])
      BY <1>2, <1>3, <1>8, <3>1
    <3> QED
      BY <1>8, <3>1, <3>2 DEF Ends
  <2>3. CASE (\A j \in 1 .. Len(o) : ~ Snap(o[j])) /\ h = x
    BY <1>2, <1>3, <1>8, <2>3 DEF Ends
  <2> QED
    BY <2>1, <2>2, <2>3
<1>9. ASSUME Snap(m)
      PROVE  Ends(h, r, Nothing, m) /\ Ends(h, o, m, m)
  <2>1. \A j \in 1 .. Len(r) : ~ (j > Len(r))
    BY <1>1, <1>2
  <2> QED
    BY <1>3, <2>1 DEF Ends
<1> QED
  BY <1>2, <1>5, <1>6, <1>7, <1>8, <1>9 DEF r

\* The write is over: what was being written is the last on the socket.
LEMMA LineWritten ==
  ASSUME NEW e, NEW M, NEW h, NEW o, NEW w, Line(e, M, h, o, w), w \in M
  PROVE  /\ Line(e, M, h, Append(o, w), Nothing)
         /\ Len(Append(o, w)) = Len(o) + 1
         /\ \A x : Ahead(e, h, o, w, x) => Ahead(e, h, Append(o, w), Nothing, x)
         /\ \A x : Ends(h, o, w, x) /\ Snap(x) => Ends(h, Append(o, w), Nothing, x)
<1> USE NothingIs
<1>1. \A x : Before(e, Nothing, x) /\ Before(e, x, Nothing)
  BY DEF Before
<1>2. Line(e, M, h, o, Nothing) /\ Ahead(e, h, o, Nothing, w)
  BY <1>1 DEF Line, Ahead
<1>3. /\ Line(e, M, h, Append(o, w), Nothing) /\ Len(Append(o, w)) = Len(o) + 1
      /\ \A x : Ahead(e, h, o, Nothing, x) /\ Before(e, w, x) => Ahead(e, h, Append(o, w), Nothing, x)
      /\ \A x : Ends(h, o, Nothing, x) /\ Snap(x) /\ ~ Snap(w) => Ends(h, Append(o, w), Nothing, x)
      /\ Snap(w) => Ends(h, Append(o, w), Nothing, w)
  BY <1>2, LineSends
<1>4. \A x : Ahead(e, h, o, w, x) => Ahead(e, h, o, Nothing, x) /\ Before(e, w, x)
  BY <1>1 DEF Ahead
<1>5. \A x : Ends(h, o, w, x) /\ Snap(x) => (Snap(w) /\ w = x) \/ (~ Snap(w) /\ Ends(h, o, Nothing, x))
  BY DEF Ends
<1> QED
  BY <1>3, <1>4, <1>5

\* The client reads the first on the socket.
LEMMA LineRead ==
  ASSUME NEW e, NEW M, NEW h, NEW o, NEW w, Line(e, M, h, o, w), o # <<>>
  PROVE  LET r == IF Snap(Head(o)) THEN Head(o) ELSE h IN
         /\ Line(e, M, r, Tail(o), w) /\ Len(Tail(o)) = Len(o) - 1 /\ Head(o) \in M
         /\ \A x : Ahead(e, h, o, w, x) => Ahead(e, r, Tail(o), w, x)
         /\ \A x : Ends(h, o, w, x) /\ Snap(x) => Ends(r, Tail(o), w, x)
         /\ (Before(e, h, r) \/ r = h)
<1> DEFINE r == IF Snap(Head(o)) THEN Head(o) ELSE h
           t == Tail(o)
<1>1. o \in Seq(M)
  BY DEF Line
<1>2. /\ t \in Seq(M) /\ Len(t) = Len(o) - 1 /\ Len(o) \in Nat \ {0} /\ Head(o) = o[1] /\ Head(o) \in M
      /\ \A i \in 1 .. Len(o) - 1 : t[i] = o[i + 1]
  BY <1>1, HeadTailProperties
<1>3. /\ \A i \in 1 .. Len(t) : i + 1 \in 1 .. Len(o) /\ 1 < i + 1 /\ t[i] = o[i + 1]
      /\ \A i, j \in 1 .. Len(t) : i < j => i + 1 < j + 1
      /\ \A i \in 1 .. Len(o) : i = 1 \/ (i - 1 \in 1 .. Len(t) /\ t[i - 1] = o[i])
      /\ 1 \in 1 .. Len(o)
  BY <1>2
<1>4. r = o[1] \/ r = h
  BY <1>2
<1>5. r \in M \cup {Nothing}
  BY <1>2 DEF Line
<1>6. Line(e, M, r, t, w)
  <2> HIDE DEF r, t
  <2> QED
    BY <1>2, <1>3, <1>4, <1>5 DEF Line
<1>7. ASSUME NEW x, Ahead(e, h, o, w, x) PROVE Ahead(e, r, t, w, x)
  <2> HIDE DEF r, t
  <2> QED
    BY <1>3, <1>4, <1>7 DEF Ahead
<1>8. ASSUME NEW x, Ends(h, o, w, x), Snap(x) PROVE Ends(r, t, w, x)
  <2>1. CASE w = x
    BY <2>1 DEF Ends
  <2>2. CASE ~ Snap(w) /\ \E i \in 1 .. Len(o) : o[i] = x /\ \A j \in 1 .. Len(o) : j > i => ~ Snap(o[j])
    <3>1. PICK i \in 1 .. Len(o) : o[i] = x /\ \A j \in 1 .. Len(o) : j > i => ~ Snap(o[j])
      BY <2>2
    <3>2. CASE i = 1
      <4>1. r = x
        BY <1>2, <1>8, <3>1, <3>2
      <4>2. \A j \in 1 .. Len(t) : ~ Snap(t[j])
        BY <1>3, <3>1, <3>2
      <4> HIDE DEF r, t
      <4> QED
        BY <2>2, <4>1, <4>2 DEF Ends
    <3>3. CASE i # 1
      <4>1. i - 1 \in 1 .. Len(t) /\ t[i - 1] = x
        BY <1>3, <3>1, <3>3
      <4>2. \A j \in 1 .. Len(t) : j > i - 1 => ~ Snap(t[j])
        <5>1. \A j \in 1 .. Len(t) : j > i - 1 => j + 1 > i
          BY <1>2
        <5> HIDE DEF t
        <5> QED
          BY <1>3, <3>1, <5>1
      <4> HIDE DEF r, t
      <4> QED
        BY <2>2, <4>1, <4>2 DEF Ends
    <3> QED
      BY <3>2, <3>3
  <2>3. CASE ~ Snap(w) /\ (\A j \in 1 .. Len(o) : ~ Snap(o[j])) /\ h = x
    <3>1. r = h /\ \A j \in 1 .. Len(t) : ~ Snap(t[j])
      BY <1>2, <1>3, <2>3
    <3> HIDE DEF r, t
    <3> QED
      BY <2>3, <3>1 DEF Ends
  <2> QED
    BY <1>8, <2>1, <2>2, <2>3 DEF Ends
<1>9. Before(e, h, r) \/ r = h
  BY <1>2, <1>3, <1>4 DEF Line
<1> QED
  BY <1>2, <1>6, <1>7, <1>8, <1>9

\* What is lost is missed by nobody.
LEMMA LineDropped ==
  ASSUME NEW e, NEW M, NEW h, NEW o, NEW w, Line(e, M, h, o, w)
  PROVE  /\ Line(e, M, h, o, Nothing) /\ Line(e, M, h, <<>>, w)
         /\ \A x : Ahead(e, h, o, w, x) => Ahead(e, h, o, Nothing, x) /\ Ahead(e, h, <<>>, w, x)
<1>1. \A x : Before(e, Nothing, x) /\ Before(e, x, Nothing)
  BY NothingIs DEF Before
<1>2. <<>> \in Seq(M) /\ Len(<<>>) = 0
  OBVIOUS
<1> QED
  BY <1>1, <1>2 DEF Line, Ahead

-----------------------------------------------------------------------------
(* The channel *)

\* The channel after m was broadcast, and a count of one more.
Aired(a, m) == IF Len(a) = Capacity THEN Append(Tail(a), m) ELSE Append(a, m)
Counted(b, k) == IF b + 1 < k THEN b + 1 ELSE k

\* r is channel a after m was broadcast, when the first d broadcasts were dropped.
AirsTo(M, a, m, r, d) ==
  /\ r \in Seq(M) /\ Len(r) \in 1 .. Capacity /\ r[Len(r)] = m
  /\ Len(r) = Len(a) + 1 - d /\ (d = 1 <=> Len(a) = Capacity)
  /\ \A k \in 1 .. Len(r) - 1 : k + d \in 1 .. Len(a) /\ r[k] = a[k + d]

LEMMA AirIs ==
  ASSUME Capacity \in Nat \ {0}, NEW M, NEW a \in Seq(M), Len(a) <= Capacity, NEW m \in M
  PROVE  \E d \in {0, 1} : AirsTo(M, a, m, Aired(a, m), d)
<1> DEFINE r == Aired(a, m)
<1>1. CASE Len(a) = Capacity
  <2>1. a # <<>> /\ Len(a) \in Nat \ {0}
    BY <1>1
  <2>2. Tail(a) \in Seq(M) /\ Len(Tail(a)) = Len(a) - 1 /\ \A k \in 1 .. Len(a) - 1 : Tail(a)[k] = a[k + 1]
    BY <2>1, HeadTailProperties
  <2>3. /\ r \in Seq(M) /\ Len(r) = Len(a) /\ r[Len(a)] = m
        /\ \A k \in 1 .. Len(a) - 1 : r[k] = Tail(a)[k]
    BY <1>1, <2>1, <2>2, AppendProperties DEF Aired
  <2> HIDE DEF r
  <2>4. \A k \in 1 .. Len(r) - 1 : k + 1 \in 1 .. Len(a) /\ r[k] = a[k + 1]
    BY <2>1, <2>2, <2>3
  <2>5. AirsTo(M, a, m, r, 1)
    BY <1>1, <2>1, <2>3, <2>4 DEF AirsTo
  <2> QED
    BY <2>5 DEF r
<1>2. CASE Len(a) # Capacity
  <2>1. /\ r \in Seq(M) /\ Len(r) = Len(a) + 1 /\ r[Len(a) + 1] = m
        /\ \A k \in 1 .. Len(a) : r[k] = a[k]
    BY <1>2, AppendProperties DEF Aired
  <2> HIDE DEF r
  <2>2. \A k \in 1 .. Len(r) - 1 : k + 0 \in 1 .. Len(a) /\ r[k] = a[k + 0]
    BY <2>1
  <2>3. Len(r) \in 1 .. Capacity
    BY <1>2, <2>1
  <2>4. AirsTo(M, a, m, r, 0)
    BY <1>2, <2>1, <2>2, <2>3 DEF AirsTo
  <2> QED
    BY <2>4 DEF r
<1> QED
  BY <1>1, <1>2

\* What each broadcast was before m was broadcast.
LEMMA AirKeeps ==
  ASSUME Capacity \in Nat \ {0}, NEW M, NEW a \in Seq(M), Len(a) <= Capacity, NEW m \in M
  PROVE  LET r == Aired(a, m) IN
         \A k \in 1 .. Len(r) : k # Len(r) => \E l \in 1 .. Len(a) : r[k] = a[l]
<1> DEFINE r == Aired(a, m)
<1>1. PICK d \in {0, 1} : AirsTo(M, a, m, r, d)
  BY AirIs
<1> HIDE DEF r
<1>2. Len(r) \in Nat /\ \A k \in 1 .. Len(r) - 1 : k + d \in 1 .. Len(a) /\ r[k] = a[k + d]
  BY <1>1 DEF AirsTo
<1>3. \A k \in 1 .. Len(r) : k # Len(r) => k \in 1 .. Len(r) - 1
  BY <1>2
<1>4. \A k \in 1 .. Len(r) : k # Len(r) => \E l \in 1 .. Len(a) : r[k] = a[l]
  BY <1>2, <1>3
<1> QED
  BY <1>4 DEF r

LEMMA ChannelAirs ==
  ASSUME Capacity \in Nat \ {0}, NEW e, NEW M, NEW a, Channel(e, M, a), NEW m \in M,
         \A k \in 1 .. Len(a) : Before(e, a[k], m)
  PROVE  Channel(e, M, Aired(a, m))
<1> DEFINE r == Aired(a, m)
<1>1. a \in Seq(M) /\ Len(a) <= Capacity /\ \A i, j \in 1 .. Len(a) : i < j => Before(e, a[i], a[j])
  BY DEF Channel
<1>2. PICK d \in {0, 1} : AirsTo(M, a, m, r, d)
  BY <1>1, AirIs
<1> HIDE DEF r
<1>3. /\ r \in Seq(M) /\ Len(r) \in 1 .. Capacity /\ r[Len(r)] = m
      /\ \A k \in 1 .. Len(r) - 1 : k + d \in 1 .. Len(a) /\ r[k] = a[k + d]
  BY <1>2 DEF AirsTo
<1>4. /\ \A i, j \in 1 .. Len(r) : i < j => i \in 1 .. Len(r) - 1 /\ (j = Len(r) \/ j \in 1 .. Len(r) - 1)
      /\ \A i, j \in 1 .. Len(r) : i < j => i + d < j + d
  BY <1>3
<1>5. \A i, j \in 1 .. Len(r) : i < j => Before(e, r[i], r[j])
  BY <1>1, <1>3, <1>4
<1>6. r \in Seq(M) /\ Len(r) <= Capacity
  BY <1>3
<1>7. Channel(e, M, r)
  BY <1>5, <1>6 DEF Channel
<1> QED
  BY <1>7 DEF r

LEMMA CountsAir ==
  ASSUME Capacity \in Nat \ {0}, NEW M, NEW a \in Seq(M), Len(a) <= Capacity, NEW m \in M,
         NEW b, NEW s, Counts(a, b, s)
  PROVE  /\ Counts(Aired(a, m), Counted(b, Capacity + 1), Counted(s, Capacity))
         /\ Counts(Aired(a, m), 0, 0)
<1> DEFINE r == Aired(a, m)
<1>1. PICK d \in {0, 1} : AirsTo(M, a, m, r, d)
  BY AirIs
<1>2. Len(a) \in Nat
  OBVIOUS
<1> HIDE DEF r
<1>3. /\ b \in Nat /\ b <= Capacity + 1 /\ s \in Nat /\ s <= Len(a) /\ (b > s => s = Capacity)
  BY <1>2 DEF Counts
<1>4. Len(r) \in 1 .. Capacity /\ Len(r) = Len(a) + 1 - d /\ (d = 1 <=> Len(a) = Capacity)
  BY <1>1 DEF AirsTo
<1>5. Counts(r, Counted(b, Capacity + 1), Counted(s, Capacity))
  BY <1>2, <1>3, <1>4 DEF Counts, Counted
<1>6. Counts(r, 0, 0)
  BY <1>4 DEF Counts
<1> QED
  BY <1>5, <1>6 DEF r

\* One more to be received, of which each may follow the line if m may.
LEMMA PendingAirs ==
  ASSUME Capacity \in Nat \ {0}, NEW e, NEW h, NEW o, NEW w, NEW M, NEW a \in Seq(M), Len(a) <= Capacity,
         NEW m \in M, NEW b, NEW s, Counts(a, b, s), Pending(e, h, o, w, a, b), Ahead(e, h, o, w, m)
  PROVE  Pending(e, h, o, w, Aired(a, m), Counted(b, Capacity + 1))
<1> DEFINE r == Aired(a, m)
           c == Counted(b, Capacity + 1)
<1>0. PICK d \in {0, 1} : AirsTo(M, a, m, r, d)
  BY AirIs
<1>1. Len(r) \in 1 .. Capacity /\ r[Len(r)] = m
  BY <1>0 DEF AirsTo
<1>2. b \in Nat /\ b <= Capacity + 1 /\ Len(a) \in Nat
  BY DEF Counts
<1> HIDE DEF r
<1>3. /\ Len(r) = Len(a) + 1 - d
      /\ \A k \in 1 .. Len(r) - 1 : k + d \in 1 .. Len(a) /\ r[k] = a[k + d]
  BY <1>0 DEF AirsTo
<1>4. ASSUME NEW k \in 1 .. Len(r), k + c > Len(r)
      PROVE  Ahead(e, h, o, w, r[k])
  <2>1. CASE k = Len(r)
    BY <1>1, <2>1
  <2>2. CASE k # Len(r)
    <3>1. k \in 1 .. Len(r) - 1 /\ k + d \in 1 .. Len(a) /\ r[k] = a[k + d]
      BY <1>1, <1>3, <2>2
    <3>2. (k + d) + b > Len(a)
      BY <1>2, <1>3, <1>4, <3>1 DEF Counted
    <3> QED
      BY <3>1, <3>2 DEF Pending
  <2> QED
    BY <2>1, <2>2
<1>5. Pending(e, h, o, w, r, c)
  <2> HIDE DEF c
  <2> QED
    BY <1>4 DEF Pending
<1> QED
  BY <1>5 DEF r

LEMMA UpToDateAirs ==
  ASSUME Capacity \in Nat \ {0}, NEW h, NEW o, NEW w, NEW M, NEW a \in Seq(M), Len(a) <= Capacity,
         NEW m \in M, NEW b, NEW s, Counts(a, b, s), UpToDate(h, o, w, a, b, s)
  PROVE  UpToDate(h, o, w, Aired(a, m), Counted(b, Capacity + 1), Counted(s, Capacity))
<1> DEFINE r == Aired(a, m)
           c == Counted(b, Capacity + 1)
           n == Counted(s, Capacity)
<1>0. PICK d \in {0, 1} : AirsTo(M, a, m, r, d)
  BY AirIs
<1>1. Len(r) \in 1 .. Capacity /\ r[Len(r)] = m
  BY <1>0 DEF AirsTo
<1>2. b \in Nat /\ b <= Capacity + 1 /\ Len(a) \in Nat /\ s \in Nat
  BY DEF Counts
<1> HIDE DEF r
<1>3. /\ Len(r) = Len(a) + 1 - d
      /\ \A k \in 1 .. Len(r) - 1 : k + d \in 1 .. Len(a) /\ r[k] = a[k + d]
  BY <1>0 DEF AirsTo
<1>4. ASSUME NEW k \in 1 .. Len(r), LastSnap(r, k), k + n > Len(r), k + c <= Len(r)
      PROVE  Ends(h, o, w, r[k])
  <2>1. k \in 1 .. Len(r) - 1
    BY <1>1, <1>2, <1>4 DEF Counted
  <2>2. k + d \in 1 .. Len(a) /\ r[k] = a[k + d]
    BY <1>3, <2>1
  <2>3. (k + d) + s > Len(a) /\ (k + d) + b <= Len(a)
    BY <1>1, <1>2, <1>3, <1>4, <2>1 DEF Counted
  <2>4. LastSnap(a, k + d)
    <3>1. Snap(a[k + d])
      BY <1>4, <2>2 DEF LastSnap
    <3>2. ASSUME NEW j \in 1 .. Len(a), j > k + d
          PROVE  ~ Snap(a[j])
      <4>1. j - d \in 1 .. Len(r) - 1 /\ j - d \in 1 .. Len(r) /\ j - d > k /\ (j - d) + d = j
        BY <1>1, <1>2, <1>3, <2>1, <3>2
      <4>2. r[j - d] = a[j]
        BY <1>3, <4>1
      <4>3. ~ Snap(r[j - d])
        BY <1>4, <4>1 DEF LastSnap
      <4> QED
        BY <4>2, <4>3
    <3> QED
      BY <3>1, <3>2 DEF LastSnap
  <2> QED
    BY <2>2, <2>3, <2>4 DEF UpToDate
<1>5. UpToDate(h, o, w, r, c, n)
  <2> HIDE DEF c, n
  <2> QED
    BY <1>4 DEF UpToDate
<1> QED
  BY <1>5 DEF r

\* A snapshot that is broadcast is the last; another message leaves the last.
LEMMA AiredLastAirs ==
  ASSUME Capacity \in Nat \ {0}, NEW M, NEW a \in Seq(M), Len(a) <= Capacity, NEW m \in M
  PROVE  /\ Snap(m) => AiredLast(Aired(a, m), m)
         /\ ~ Snap(m) => \A x : AiredLast(a, x) => AiredLast(Aired(a, m), x)
<1> DEFINE r == Aired(a, m)
<1>0. PICK d \in {0, 1} : AirsTo(M, a, m, r, d)
  BY AirIs
<1>1. Len(r) \in 1 .. Capacity /\ r[Len(r)] = m
  BY <1>0 DEF AirsTo
<1>2. Len(a) \in Nat
  OBVIOUS
<1> HIDE DEF r
<1>3. /\ Len(r) = Len(a) + 1 - d
      /\ \A k \in 1 .. Len(r) - 1 : k + d \in 1 .. Len(a) /\ r[k] = a[k + d]
  BY <1>0 DEF AirsTo
<1>4. ASSUME Snap(m) PROVE AiredLast(r, m)
  <2>1. \A k \in 1 .. Len(r) : k = Len(r) \/ k < Len(r)
    BY <1>1
  <2>2. Len(r) \in 1 .. Len(r)
    BY <1>1
  <2> QED
    BY <1>1, <1>4, <2>1, <2>2 DEF AiredLast, LastSnap
<1>5. ASSUME ~ Snap(m), NEW x, AiredLast(a, x) PROVE AiredLast(r, x)
  <2> SUFFICES ASSUME NEW k \in 1 .. Len(r), LastSnap(r, k) PROVE r[k] = x
    BY DEF AiredLast
  <2>1. k # Len(r)
    BY <1>1, <1>5 DEF LastSnap
  <2>2. k \in 1 .. Len(r) - 1 /\ k + d \in 1 .. Len(a) /\ r[k] = a[k + d]
    BY <1>1, <1>3, <2>1
  <2>3. ASSUME NEW j \in 1 .. Len(a), j > k + d
        PROVE  ~ Snap(a[j])
    <3>1. j - d \in 1 .. Len(r) - 1 /\ j - d \in 1 .. Len(r) /\ j - d > k /\ (j - d) + d = j
      BY <1>1, <1>2, <1>3, <2>2, <2>3
    <3>2. r[j - d] = a[j]
      BY <1>3, <3>1
    <3>3. ~ Snap(r[j - d])
      BY <3>1 DEF LastSnap
    <3> QED
      BY <3>2, <3>3
  <2>4. LastSnap(a, k + d)
    BY <2>2, <2>3 DEF LastSnap
  <2> QED
    BY <1>5, <2>2, <2>4 DEF AiredLast
<1> QED
  BY <1>4, <1>5 DEF r

-----------------------------------------------------------------------------
(* One connection *)

LEMMA ConnectionWider ==
  ASSUME NEW e, NEW M, NEW N, M \subseteq N, NEW st, NEW w, NEW g, NEW i, NEW o, NEW b, NEW s, NEW cl, NEW h,
         NEW a, Connection(e, M, st, w, g, i, o, b, s, cl, h, a)
  PROVE  Connection(e, N, st, w, g, i, o, b, s, cl, h, a)
<1>1. Line(e, M, h, o, w)
  BY DEF Connection
<1>2. o \in Seq(M) /\ h \in N \cup {Nothing} /\ w \in N \cup {Nothing}
  BY <1>1 DEF Line
<1>3. o \in Seq(N)
  BY <1>2, SeqWider
<1>4. Line(e, N, h, o, w)
  BY <1>1, <1>2, <1>3 DEF Line
<1> QED
  BY <1>4 DEF Connection

\* Nothing is sent, and nothing received.
LEMMA ConnectionChanges ==
  ASSUME NEW e, NEW M, NEW st, NEW w, NEW g, NEW i, NEW o, NEW b, NEW s, NEW cl, NEW h, NEW a,
         Connection(e, M, st, w, g, i, o, b, s, cl, h, a),
         NEW st2, st2 \in {"loop", "posted"} => st \in {"loop", "posted"}, w # Nothing => st2 = st,
         NEW j \in Seq(Asks), Len(j) <= Buffer,
         NEW cl2, cl2 # "none", cl2 \notin {"closed", "refused"} => cl \notin {"closed", "refused"}
  PROVE  Connection(e, M, st2, w, g, j, o, b, s, cl2, h, a)
BY DEF Connection

\* The handler sends m, which is no snapshot once it has a receiver.
LEMMA ConnectionSends ==
  ASSUME Buffer \in Nat,
         NEW e, NEW M, NEW st, NEW g, NEW i, NEW o, NEW b, NEW s, NEW cl, NEW h, NEW a,
         Connection(e, M, st, Nothing, g, i, o, b, s, cl, h, a),
         NEW m \in M, Ahead(e, h, o, Nothing, m),
         st # "away", NEW st2 \in Waits, st2 = "loop" => st = "loop" /\ ~ Snap(m),
         NEW j \in Seq(Asks), Len(j) <= Buffer, NEW f
  PROVE  /\ Connection(e, M, "failed", Nothing, g, j, o, b, s, cl, h, a)
         /\ cl \in {"closed", "refused"} => Connection(e, M, st2, Nothing, g, j, o, b, s, cl, h, a)
         /\ Len(o) < Buffer => Connection(e, M, st2, Nothing, g, j, Append(o, m), b, s, cl, h, a)
         /\ m # Nothing => Connection(e, M, st2, m, f, j, o, b, s, cl, h, a)
<1> USE DEF Connection
<1>1. Line(e, M, h, o, Nothing) /\ Counts(a, b, s) /\ Len(o) <= Buffer /\ o \in Seq(M)
  BY DEF Line
<1>2. /\ Line(e, M, h, Append(o, m), Nothing) /\ Line(e, M, h, o, m)
      /\ Len(Append(o, m)) = Len(o) + 1
      /\ \A x : Ahead(e, h, o, Nothing, x) /\ Before(e, m, x)
                  => Ahead(e, h, Append(o, m), Nothing, x) /\ Ahead(e, h, o, m, x)
      /\ \A x : Ends(h, o, Nothing, x) /\ Snap(x) /\ ~ Snap(m)
                  => Ends(h, Append(o, m), Nothing, x) /\ Ends(h, o, m, x)
  BY <1>1, LineSends
<1>3. Connection(e, M, "failed", Nothing, g, j, o, b, s, cl, h, a)
  BY <1>1
<1>4. ASSUME cl \in {"closed", "refused"} PROVE Connection(e, M, st2, Nothing, g, j, o, b, s, cl, h, a)
  BY <1>1, <1>4 DEF Waits
<1>5. ASSUME st2 = "loop"
      PROVE  /\ Pending(e, h, Append(o, m), Nothing, a, b) /\ Pending(e, h, o, m, a, b)
             /\ cl \notin {"closed", "refused"} =>
                  UpToDate(h, Append(o, m), Nothing, a, b, s) /\ UpToDate(h, o, m, a, b, s)
  <2>1. ~ Snap(m) /\ Pending(e, h, o, Nothing, a, b)
        /\ (cl \notin {"closed", "refused"} => UpToDate(h, o, Nothing, a, b, s))
    BY <1>5
  <2>2. \A x : Before(e, m, x)
    BY <2>1 DEF Before
  <2>3. Pending(e, h, Append(o, m), Nothing, a, b) /\ Pending(e, h, o, m, a, b)
    BY <1>2, <2>1, <2>2 DEF Pending
  <2>4. \A k \in 1 .. Len(a) : LastSnap(a, k) => Snap(a[k])
    BY DEF LastSnap
  <2> QED
    BY <1>2, <2>1, <2>3, <2>4 DEF UpToDate
<1>6. ASSUME Len(o) < Buffer PROVE Connection(e, M, st2, Nothing, g, j, Append(o, m), b, s, cl, h, a)
  <2>1. Len(Append(o, m)) <= Buffer
    BY <1>1, <1>2, <1>6
  <2> QED
    BY <1>1, <1>2, <1>5, <2>1 DEF Waits
<1>7. ASSUME m # Nothing PROVE Connection(e, M, st2, m, f, j, o, b, s, cl, h, a)
  BY <1>1, <1>2, <1>5, <1>7 DEF Waits
<1> QED
  BY <1>3, <1>4, <1>6, <1>7

\* The oldest broadcast it is behind.
Oldest(a, b) == a[Len(a) - b + 1]

\* The handler receives a broadcast and sends it, or learns that it lagged.
LEMMA ConnectionRelays ==
  ASSUME Capacity \in Nat \ {0}, Buffer \in Nat,
         NEW e, NEW M, Nothing \notin M, NEW g, NEW i, NEW o, NEW b, NEW s, NEW cl, NEW h, NEW a,
         Channel(e, M, a), Connection(e, M, "loop", Nothing, g, i, o, b, s, cl, h, a), b > 0, NEW f
  PROVE  /\ b > Capacity => Connection(e, M, "loop", Nothing, g, i, o, Capacity, s, cl, h, a)
         /\ b <= Capacity =>
              /\ Oldest(a, b) \in M
              /\ Connection(e, M, "failed", Nothing, g, i, o, b - 1, s, cl, h, a)
              /\ cl \in {"closed", "refused"} => Connection(e, M, "loop", Nothing, g, i, o, b - 1, s, cl, h, a)
              /\ Len(o) < Buffer => Connection(e, M, "loop", Nothing, g, i, Append(o, Oldest(a, b)), b - 1, s, cl, h, a)
              /\ Connection(e, M, "loop", Oldest(a, b), f, i, o, b - 1, s, cl, h, a)
<1>1. /\ Line(e, M, h, o, Nothing) /\ Counts(a, b, s) /\ i \in Seq(Asks) /\ Len(i) <= Buffer /\ Len(o) <= Buffer
      /\ g = "none" /\ Pending(e, h, o, Nothing, a, b)
      /\ cl \notin {"closed", "refused"} => UpToDate(h, o, Nothing, a, b, s)
  BY DEF Connection
<1>2. /\ b \in Nat /\ b <= Capacity + 1 /\ s \in Nat /\ s <= Len(a) /\ (b > s => s = Capacity)
      /\ a \in Seq(M) /\ Len(a) \in Nat /\ Len(a) <= Capacity
      /\ \A k, l \in 1 .. Len(a) : k < l => Before(e, a[k], a[l])
  BY <1>1 DEF Channel, Counts
<1>3. ASSUME b > Capacity
      PROVE  Connection(e, M, "loop", Nothing, g, i, o, Capacity, s, cl, h, a)
  <2>1. s = Capacity /\ Len(a) = Capacity /\ b = Capacity + 1
    BY <1>2, <1>3
  <2>2. \A k \in 1 .. Len(a) : k + b > Len(a) /\ ~ (k + Capacity <= Len(a))
    BY <1>2, <2>1
  <2>3. Pending(e, h, o, Nothing, a, Capacity) /\ UpToDate(h, o, Nothing, a, Capacity, s)
    BY <1>1, <2>2 DEF Pending, UpToDate
  <2>4. Counts(a, Capacity, s)
    BY <1>2, <2>1 DEF Counts
  <2> QED
    BY <1>1, <2>3, <2>4 DEF Connection
<1>4. ASSUME b <= Capacity
      PROVE  /\ Oldest(a, b) \in M
             /\ Connection(e, M, "failed", Nothing, g, i, o, b - 1, s, cl, h, a)
             /\ cl \in {"closed", "refused"} => Connection(e, M, "loop", Nothing, g, i, o, b - 1, s, cl, h, a)
             /\ Len(o) < Buffer => Connection(e, M, "loop", Nothing, g, i, Append(o, Oldest(a, b)), b - 1, s, cl, h, a)
             /\ Connection(e, M, "loop", Oldest(a, b), f, i, o, b - 1, s, cl, h, a)
  <2> DEFINE l == Len(a) - b + 1
             m == a[l]
  <2>1. l \in 1 .. Len(a) /\ l + b > Len(a)
    BY <1>2, <1>4
  <2>2. m \in M /\ Ahead(e, h, o, Nothing, m) /\ m # Nothing
    BY <1>1, <1>2, <2>1 DEF Pending
  <2>3. Counts(a, b - 1, s)
    BY <1>2 DEF Counts
  <2>4. /\ \A k \in 1 .. Len(a) : k + (b - 1) > Len(a) => k + b > Len(a) /\ l < k
        /\ \A k \in 1 .. Len(a) : k + (b - 1) <= Len(a) => k = l \/ (k < l /\ k + b <= Len(a))
    BY <1>2
  <2> HIDE DEF l
  <2>5. /\ Line(e, M, h, Append(o, m), Nothing) /\ Line(e, M, h, o, m)
        /\ Len(Append(o, m)) = Len(o) + 1
        /\ \A x : Ahead(e, h, o, Nothing, x) /\ Before(e, m, x)
                    => Ahead(e, h, Append(o, m), Nothing, x) /\ Ahead(e, h, o, m, x)
        /\ \A x : Ends(h, o, Nothing, x) /\ Snap(x) /\ ~ Snap(m)
                    => Ends(h, Append(o, m), Nothing, x) /\ Ends(h, o, m, x)
        /\ Snap(m) => Ends(h, Append(o, m), Nothing, m) /\ Ends(h, o, m, m)
    BY <1>1, <2>2, LineSends
  <2>6. \A k \in 1 .. Len(a) : k + (b - 1) > Len(a) => Ahead(e, h, o, Nothing, a[k]) /\ Before(e, m, a[k])
    BY <1>1, <1>2, <2>1, <2>4 DEF Pending
  <2>7. /\ Pending(e, h, Append(o, m), Nothing, a, b - 1) /\ Pending(e, h, o, m, a, b - 1)
        /\ Pending(e, h, o, Nothing, a, b - 1)
    BY <2>5, <2>6 DEF Pending
  <2>8. ASSUME cl \notin {"closed", "refused"}
        PROVE  UpToDate(h, Append(o, m), Nothing, a, b - 1, s) /\ UpToDate(h, o, m, a, b - 1, s)
    <3>1. ASSUME NEW k \in 1 .. Len(a), LastSnap(a, k), k + s > Len(a), k + (b - 1) <= Len(a)
          PROVE  Ends(h, Append(o, m), Nothing, a[k]) /\ Ends(h, o, m, a[k])
      <4>1. CASE k = l
        BY <2>5, <3>1, <4>1 DEF LastSnap
      <4>2. CASE k # l
        <5>1. k < l /\ k + b <= Len(a)
          BY <2>4, <3>1, <4>2
        <5>2. ~ Snap(m) /\ Snap(a[k])
          BY <2>1, <3>1, <5>1 DEF LastSnap
        <5>3. Ends(h, o, Nothing, a[k])
          BY <1>1, <2>8, <3>1, <5>1 DEF UpToDate
        <5> QED
          BY <2>5, <5>2, <5>3
      <4> QED
        BY <4>1, <4>2
    <3> HIDE DEF m
    <3> QED
      BY <3>1 DEF UpToDate
  <2>9. Len(o) \in Nat
    BY <1>1 DEF Line
  <2>10. Oldest(a, b) = m
    BY DEF Oldest, l
  <2> HIDE DEF m
  <2>11. Connection(e, M, "failed", Nothing, g, i, o, b - 1, s, cl, h, a)
    BY <1>1, <2>3 DEF Connection
  <2>12. cl \in {"closed", "refused"} => Connection(e, M, "loop", Nothing, g, i, o, b - 1, s, cl, h, a)
    BY <1>1, <2>3, <2>7 DEF Connection
  <2>13. Len(o) < Buffer => Connection(e, M, "loop", Nothing, g, i, Append(o, m), b - 1, s, cl, h, a)
    <3>1. Len(o) < Buffer => Len(Append(o, m)) <= Buffer
      BY <2>5, <2>9
    <3> QED
      BY <1>1, <2>3, <2>5, <2>7, <2>8, <3>1 DEF Connection
  <2>14. Connection(e, M, "loop", m, f, i, o, b - 1, s, cl, h, a)
    BY <1>1, <2>2, <2>3, <2>5, <2>7, <2>8 DEF Connection, Waits
  <2> QED
    BY <2>2, <2>10, <2>11, <2>12, <2>13, <2>14
<1> QED
  BY <1>3, <1>4

\* The write that waited is over.
LEMMA ConnectionFlushes ==
  ASSUME Buffer \in Nat,
         NEW e, NEW M, NEW st, NEW w, NEW g, NEW i, NEW o, NEW b, NEW s, NEW cl, NEW h, NEW a,
         Connection(e, M, st, w, g, i, o, b, s, cl, h, a), w # Nothing
  PROVE  /\ Connection(e, M, "failed", Nothing, "none", i, o, b, s, cl, h, a)
         /\ cl \in {"closed", "refused"} => Connection(e, M, st, Nothing, "none", i, o, b, s, cl, h, a)
         /\ Len(o) < Buffer => Connection(e, M, st, Nothing, "none", i, Append(o, w), b, s, cl, h, a)
<1> USE DEF Connection
<1>1. Line(e, M, h, o, w) /\ w \in M /\ Len(o) \in Nat
  BY DEF Line
<1>2. /\ Line(e, M, h, Append(o, w), Nothing)
      /\ Len(Append(o, w)) = Len(o) + 1
      /\ \A x : Ahead(e, h, o, w, x) => Ahead(e, h, Append(o, w), Nothing, x)
      /\ \A x : Ends(h, o, w, x) /\ Snap(x) => Ends(h, Append(o, w), Nothing, x)
  BY <1>1, LineWritten
<1>3. /\ Line(e, M, h, o, Nothing)
      /\ \A x : Ahead(e, h, o, w, x) => Ahead(e, h, o, Nothing, x)
  BY <1>1, LineDropped
<1>4. /\ Pending(e, h, o, w, a, b) => Pending(e, h, Append(o, w), Nothing, a, b) /\ Pending(e, h, o, Nothing, a, b)
      /\ UpToDate(h, o, w, a, b, s) => UpToDate(h, Append(o, w), Nothing, a, b, s)
  BY <1>2, <1>3 DEF Pending, UpToDate, LastSnap
<1>5. Len(o) < Buffer => Len(Append(o, w)) <= Buffer
  BY <1>1, <1>2
<1> QED
  BY <1>2, <1>3, <1>4, <1>5 DEF Waits

\* The client reads.
LEMMA ConnectionReads ==
  ASSUME NEW e, NEW M, NEW st, NEW w, NEW g, NEW i, NEW o, NEW b, NEW s, NEW cl, NEW h, NEW a,
         Connection(e, M, st, w, g, i, o, b, s, cl, h, a), o # <<>>, Buffer \in Nat,
         cl \notin {"closed", "refused"}, cl # "none", NEW cl2, cl2 # "none"
  PROVE  LET r == IF Snap(Head(o)) THEN Head(o) ELSE h IN
         /\ Connection(e, M, st, w, g, i, Tail(o), b, s, cl2, r, a)
         /\ (Before(e, h, r) \/ r = h)
<1> DEFINE r == IF Snap(Head(o)) THEN Head(o) ELSE h
<1>1. Line(e, M, h, o, w) /\ o \in Seq(M) /\ Len(o) \in Nat /\ Len(o) <= Buffer
  BY DEF Connection, Line
<1>2. /\ Line(e, M, r, Tail(o), w) /\ Len(Tail(o)) = Len(o) - 1
      /\ \A x : Ahead(e, h, o, w, x) => Ahead(e, r, Tail(o), w, x)
      /\ \A x : Ends(h, o, w, x) /\ Snap(x) => Ends(r, Tail(o), w, x)
      /\ (Before(e, h, r) \/ r = h)
  BY <1>1, LineRead
<1>6. r = Nothing \/ Snap(r)
  BY DEF Connection
<1> HIDE DEF r
<1>3. /\ Pending(e, h, o, w, a, b) => Pending(e, r, Tail(o), w, a, b)
      /\ UpToDate(h, o, w, a, b, s) => UpToDate(r, Tail(o), w, a, b, s)
  BY <1>2 DEF Pending, UpToDate, LastSnap
<1>4. Len(Tail(o)) <= Buffer
  BY <1>1, <1>2
<1>5. Connection(e, M, st, w, g, i, Tail(o), b, s, cl2, r, a)
  BY <1>2, <1>3, <1>4, <1>6 DEF Connection
<1> QED
  BY <1>2, <1>5 DEF r

LEMMA ConnectionCloses ==
  ASSUME NEW e, NEW M, NEW st, NEW w, NEW g, NEW i, NEW o, NEW b, NEW s, NEW cl, NEW h, NEW a,
         Connection(e, M, st, w, g, i, o, b, s, cl, h, a), Buffer \in Nat
  PROVE  Connection(e, M, st, w, g, i, <<>>, b, s, "closed", h, a)
<1>1. Line(e, M, h, o, w)
  BY DEF Connection
<1>2. Line(e, M, h, <<>>, w) /\ \A x : Ahead(e, h, o, w, x) => Ahead(e, h, <<>>, w, x)
  BY <1>1, LineDropped
<1>3. Pending(e, h, o, w, a, b) => Pending(e, h, <<>>, w, a, b)
  BY <1>2 DEF Pending
<1>4. Len(<<>>) <= Buffer
  OBVIOUS
<1> QED
  BY <1>2, <1>3, <1>4 DEF Connection

\* It receives what is broadcast from now on.
LEMMA ConnectionSubscribes ==
  ASSUME NEW e, NEW M, NEW st, NEW g, NEW i, NEW o, NEW b, NEW s, NEW cl, NEW h, NEW a, Channel(e, M, a),
         Connection(e, M, st, Nothing, g, i, o, b, s, cl, h, a), st # "away", Capacity \in Nat
  PROVE  Connection(e, M, "loop", Nothing, g, i, o, 0, 0, cl, h, a)
<1>1. Len(a) \in Nat
  BY DEF Channel
<1>2. Counts(a, 0, 0)
  BY <1>1 DEF Counts
<1>3. \A k \in 1 .. Len(a) : ~ (k + 0 > Len(a))
  BY <1>1
<1>4. Pending(e, h, o, Nothing, a, 0) /\ UpToDate(h, o, Nothing, a, 0, 0)
  BY <1>3 DEF Pending, UpToDate
<1> QED
  BY <1>2, <1>4 DEF Connection

\* m is broadcast, and counted by those that have a receiver.
LEMMA ConnectionAirs ==
  ASSUME Capacity \in Nat \ {0},
         NEW e, NEW M, NEW st, NEW w, NEW g, NEW i, NEW o, NEW b, NEW s, NEW cl, NEW h, NEW a,
         Channel(e, M, a), Connection(e, M, st, w, g, i, o, b, s, cl, h, a), NEW m \in M, Ahead(e, h, o, w, m)
  PROVE  IF st \in {"loop", "posted"}
           THEN Connection(e, M, st, w, g, i, o, Counted(b, Capacity + 1), Counted(s, Capacity), cl, h, Aired(a, m))
           ELSE Connection(e, M, st, w, g, i, o, 0, 0, cl, h, Aired(a, m))
<1>1. a \in Seq(M) /\ Len(a) <= Capacity
  BY DEF Channel
<1>2. Counts(a, b, s)
  BY DEF Connection
<1>3. /\ Counts(Aired(a, m), Counted(b, Capacity + 1), Counted(s, Capacity))
      /\ Counts(Aired(a, m), 0, 0)
  BY <1>1, <1>2, CountsAir
<1>4. CASE st \in {"loop", "posted"}
  <2>1. Pending(e, h, o, w, a, b) /\ (cl \notin {"closed", "refused"} => UpToDate(h, o, w, a, b, s))
    BY <1>4 DEF Connection
  <2>2. Pending(e, h, o, w, Aired(a, m), Counted(b, Capacity + 1))
    BY <1>1, <1>2, <2>1, PendingAirs
  <2>3. cl \notin {"closed", "refused"}
          => UpToDate(h, o, w, Aired(a, m), Counted(b, Capacity + 1), Counted(s, Capacity))
    BY <1>1, <1>2, <2>1, UpToDateAirs
  <2> QED
    BY <1>3, <1>4, <2>2, <2>3 DEF Connection
<1>5. CASE st \notin {"loop", "posted"}
  BY <1>3, <1>5 DEF Connection
<1> QED
  BY <1>4, <1>5

-----------------------------------------------------------------------------
(* All of them *)

\* The broadcast channel is left alone, and all connections but c.
LEMMA OneMoves ==
  ASSUME NEW e, NEW M, SessionsOf(e, M), NEW c \in Conns, aired' = aired, Shapes(M)', ConnectionOf(c, e, M)',
         \A d \in Conns : d # c =>
           /\ step'[d] = step[d] /\ writing'[d] = writing[d] /\ holds'[d] = holds[d]
           /\ inbox'[d] = inbox[d] /\ outbox'[d] = outbox[d] /\ behind'[d] = behind[d] /\ since'[d] = since[d]
           /\ client'[d] = client[d] /\ heard'[d] = heard[d]
  PROVE  SessionsOf(e, M)'
<1>1. ASSUME NEW d \in Conns, d # c PROVE ConnectionOf(d, e, M)'
  BY <1>1 DEF SessionsOf, ConnectionOf
<1> QED
  BY <1>1 DEF SessionsOf

\* sink.send(): to the socket, or it waits, or the client is gone.
LEMMA SessionsSend ==
  ASSUME SessionAssumption, NEW e, NEW M, Nothing \notin M, SessionsOf(e, M), NEW c \in Conns, NEW m \in M,
         NEW g \in {"none", "read", "write"}, NEW s \in Waits, step[c] # "away",
         s = "loop" => step[c] = "loop" /\ ~ Snap(m),
         writing[c] = Nothing, Ahead(e, heard[c], outbox[c], Nothing, m), Send(c, m, g, s),
         \/ inbox' = inbox
         \/ inbox[c] # <<>> /\ inbox' = [inbox EXCEPT ![c] = Tail(@)],
         UNCHANGED <<channelVars, clientVars>>
  PROVE  SessionsOf(e, M)'
<1>1. /\ Shapes(M) /\ Channel(e, M, aired) /\ ConnectionOf(c, e, M)
      /\ UNCHANGED <<aired, behind, since, client, heard>> /\ Buffer \in Nat
  BY DEF SessionsOf, channelVars, clientVars, SessionAssumption
<1>2. inbox[c] \in Seq(Asks) /\ Len(inbox[c]) <= Buffer /\ outbox[c] \in Seq(M)
  BY <1>1 DEF Shapes, ConnectionOf, Connection
<1>3. /\ inbox' \in [Conns -> Seq(Asks)] /\ Len(inbox'[c]) <= Buffer
      /\ \A d \in Conns : d # c => inbox'[d] = inbox[d]
  <2>1. CASE inbox' = inbox
    BY <1>1, <1>2, <2>1 DEF Shapes
  <2>2. CASE inbox[c] # <<>> /\ inbox' = [inbox EXCEPT ![c] = Tail(@)]
    <3>1. Tail(inbox[c]) \in Seq(Asks) /\ Len(Tail(inbox[c])) = Len(inbox[c]) - 1 /\ Len(inbox[c]) \in Nat
      BY <1>2, <2>2, HeadTailProperties
    <3>2. Len(Tail(inbox[c])) <= Buffer
      BY <1>1, <1>2, <3>1
    <3>3. inbox \in [Conns -> Seq(Asks)]
      BY <1>1 DEF Shapes
    <3> QED
      BY <2>2, <3>1, <3>2, <3>3
  <2> QED
    BY <2>1, <2>2
<1> DEFINE After(st, w, h, o) ==
             Connection(e, M, st, w, h, inbox'[c], o, behind[c], since[c], client[c], heard[c], aired)
<1>4. inbox'[c] \in Seq(Asks)
  BY <1>3
<1>5. /\ After("failed", Nothing, holds[c], outbox[c])
      /\ client[c] \in {"closed", "refused"} => After(s, Nothing, holds[c], outbox[c])
      /\ Len(outbox[c]) < Buffer => After(s, Nothing, holds[c], Append(outbox[c], m))
      /\ After(s, m, g, outbox[c])
  <2>1. Connection(e, M, step[c], Nothing, holds[c], inbox[c], outbox[c], behind[c], since[c], client[c], heard[c],
                   aired)
    BY <1>1 DEF ConnectionOf
  <2>2. m # Nothing /\ Len(inbox'[c]) <= Buffer
    BY <1>3
  <2> QED
    BY <1>1, <1>4, <2>1, <2>2, ConnectionSends
<1> HIDE DEF After
<1>6. ASSUME NEW st \in Steps, NEW w \in M \cup {Nothing}, NEW h \in {"none", "read", "write"}, NEW o \in Seq(M),
             After(st, w, h, o),
             step' = [step EXCEPT ![c] = st], writing' = [writing EXCEPT ![c] = w],
             holds' = [holds EXCEPT ![c] = h], outbox' = [outbox EXCEPT ![c] = o]
      PROVE  SessionsOf(e, M)'
  <2>1. Shapes(M)'
    BY <1>1, <1>3, <1>6 DEF Shapes
  <2>2. /\ step'[c] = st /\ writing'[c] = w /\ holds'[c] = h /\ outbox'[c] = o
        /\ \A d \in Conns : d # c =>
             step'[d] = step[d] /\ writing'[d] = writing[d] /\ holds'[d] = holds[d] /\ outbox'[d] = outbox[d]
    BY <1>1, <1>6 DEF Shapes
  <2>3. ConnectionOf(c, e, M)'
    BY <1>1, <1>6, <2>2 DEF After, ConnectionOf
  <2> QED
    BY <1>1, <1>3, <2>1, <2>2, <2>3, OneMoves
<1>7. /\ writing[c] = Nothing => writing = [writing EXCEPT ![c] = Nothing]
      /\ holds = [holds EXCEPT ![c] = holds[c]]
      /\ outbox = [outbox EXCEPT ![c] = outbox[c]] /\ holds[c] \in {"none", "read", "write"}
  BY <1>1 DEF Shapes
<1>8. /\ [outbox EXCEPT ![c] = Append(@, m)] = [outbox EXCEPT ![c] = Append(outbox[c], m)]
      /\ Append(outbox[c], m) \in Seq(M)
  BY <1>1, <1>2, AppendProperties DEF Shapes
<1>13. s \in Steps
  BY DEF Waits, Steps
<1>9. CASE Gone(c) /\ Advance(c, "failed") /\ UNCHANGED <<writing, holds, outbox>>
  BY <1>2, <1>5, <1>6, <1>7, <1>9 DEF Advance, Steps
<1>10. CASE Advance(c, s) /\ Gone(c) /\ UNCHANGED <<writing, holds, outbox>>
  BY <1>2, <1>5, <1>6, <1>7, <1>13, <1>10 DEF Advance, Gone
<1>11. CASE /\ Advance(c, s) /\ Len(outbox[c]) < Buffer
            /\ outbox' = [outbox EXCEPT ![c] = Append(@, m)] /\ UNCHANGED <<writing, holds>>
  BY <1>2, <1>5, <1>6, <1>7, <1>8, <1>13, <1>11 DEF Advance
<1>12. CASE /\ Advance(c, s) /\ UNCHANGED outbox
            /\ writing' = [writing EXCEPT ![c] = m] /\ holds' = [holds EXCEPT ![c] = g]
  BY <1>2, <1>5, <1>6, <1>7, <1>13, <1>12 DEF Advance
<1> QED
  BY <1>9, <1>10, <1>11, <1>12 DEF Send

\* Connection c becomes what it is here, and nothing else is changed.
Becomes(c, st, w, g, i, o, b, s, cl, h) ==
  /\ step' = [step EXCEPT ![c] = st] /\ writing' = [writing EXCEPT ![c] = w] /\ holds' = [holds EXCEPT ![c] = g]
  /\ inbox' = [inbox EXCEPT ![c] = i] /\ outbox' = [outbox EXCEPT ![c] = o]
  /\ behind' = [behind EXCEPT ![c] = b] /\ since' = [since EXCEPT ![c] = s]
  /\ client' = [client EXCEPT ![c] = cl] /\ heard' = [heard EXCEPT ![c] = h]
  /\ aired' = aired

Typed(M, st, w, g, i, o, cl, h) ==
  /\ st \in Steps /\ w \in M \cup {Nothing} /\ g \in {"none", "read", "write"} /\ i \in Seq(Asks) /\ o \in Seq(M)
  /\ cl \in ClientSteps /\ h \in M \cup {Nothing}

LEMMA OneBecomes ==
  ASSUME NEW e, NEW M, SessionsOf(e, M), NEW c \in Conns,
         NEW st, NEW w, NEW g, NEW i, NEW o, NEW b, NEW s, NEW cl, NEW h,
         Typed(M, st, w, g, i, o, cl, h), Becomes(c, st, w, g, i, o, b, s, cl, h),
         Connection(e, M, st, w, g, i, o, b, s, cl, h, aired)
  PROVE  SessionsOf(e, M)'
<1>1. Shapes(M) /\ aired' = aired
  BY DEF SessionsOf, Becomes
<1>2. Shapes(M)'
  <2>1. b \in Nat /\ s \in Nat
    BY DEF Connection, Counts
  <2> QED
    BY <1>1, <2>1 DEF Shapes, Typed, Becomes
<1>3. /\ step'[c] = st /\ writing'[c] = w /\ holds'[c] = g /\ inbox'[c] = i /\ outbox'[c] = o
      /\ behind'[c] = b /\ since'[c] = s /\ client'[c] = cl /\ heard'[c] = h
  BY <1>1 DEF Shapes, Becomes
<1>4. \A d \in Conns : d # c =>
           /\ step'[d] = step[d] /\ writing'[d] = writing[d] /\ holds'[d] = holds[d]
           /\ inbox'[d] = inbox[d] /\ outbox'[d] = outbox[d] /\ behind'[d] = behind[d] /\ since'[d] = since[d]
           /\ client'[d] = client[d] /\ heard'[d] = heard[d]
  BY <1>1 DEF Shapes, Becomes
<1>5. ConnectionOf(c, e, M)'
  BY <1>1, <1>3 DEF ConnectionOf
<1> QED
  BY <1>1, <1>2, <1>4, <1>5, OneMoves

\* What is left alone, in the form of Becomes.
LEMMA Same ==
  ASSUME NEW e, NEW M, SessionsOf(e, M), NEW c \in Conns
  PROVE  /\ step = [step EXCEPT ![c] = step[c]] /\ writing = [writing EXCEPT ![c] = writing[c]]
         /\ holds = [holds EXCEPT ![c] = holds[c]] /\ inbox = [inbox EXCEPT ![c] = inbox[c]]
         /\ outbox = [outbox EXCEPT ![c] = outbox[c]] /\ behind = [behind EXCEPT ![c] = behind[c]]
         /\ since = [since EXCEPT ![c] = since[c]] /\ client = [client EXCEPT ![c] = client[c]]
         /\ heard = [heard EXCEPT ![c] = heard[c]]
<1>1. Shapes(M)
  BY DEF SessionsOf
<1>2. step = [step EXCEPT ![c] = step[c]] /\ writing = [writing EXCEPT ![c] = writing[c]]
  BY <1>1 DEF Shapes
<1>3. holds = [holds EXCEPT ![c] = holds[c]] /\ inbox = [inbox EXCEPT ![c] = inbox[c]]
  BY <1>1 DEF Shapes
<1>4. outbox = [outbox EXCEPT ![c] = outbox[c]] /\ behind = [behind EXCEPT ![c] = behind[c]]
  BY <1>1 DEF Shapes
<1>5. since = [since EXCEPT ![c] = since[c]] /\ client = [client EXCEPT ![c] = client[c]]
  BY <1>1 DEF Shapes
<1>6. heard = [heard EXCEPT ![c] = heard[c]]
  BY <1>1 DEF Shapes
<1> QED
  BY <1>2, <1>3, <1>4, <1>5, <1>6

LEMMA Unchanged ==
  ASSUME NEW e, NEW M, SessionsOf(e, M), NEW c \in Conns
  PROVE  /\ Typed(M, step[c], writing[c], holds[c], inbox[c], outbox[c], client[c], heard[c])
         /\ Len(inbox[c]) <= Buffer
         /\ Channel(e, M, aired)
         /\ Connection(e, M, step[c], writing[c], holds[c], inbox[c], outbox[c], behind[c], since[c], client[c],
                       heard[c], aired)
<1>1. Shapes(M) /\ Channel(e, M, aired) /\ ConnectionOf(c, e, M)
  BY DEF SessionsOf
<1>2. Len(inbox[c]) <= Buffer
  BY <1>1 DEF ConnectionOf, Connection
<1>3. Typed(M, step[c], writing[c], holds[c], inbox[c], outbox[c], client[c], heard[c])
  BY <1>1 DEF Typed, Shapes
<1>4. Connection(e, M, step[c], writing[c], holds[c], inbox[c], outbox[c], behind[c], since[c], client[c],
                 heard[c], aired)
  BY <1>1 DEF ConnectionOf
<1> QED
  BY <1>1, <1>2, <1>3, <1>4

LEMMA SessionsRelay ==
  ASSUME SessionAssumption, NEW e, NEW M, Nothing \notin M, SessionsOf(e, M), NEW c \in Conns, Relay(c)
  PROVE  SessionsOf(e, M)'
<1>1. /\ step[c] = "loop" /\ writing[c] = Nothing /\ behind[c] > 0
      /\ UNCHANGED <<inbox, aired, since, client, heard>> /\ Buffer \in Nat /\ Capacity \in Nat \ {0}
  BY DEF Relay, At, clientVars, SessionAssumption
<1> DEFINE b == behind[c]
           m == Oldest(aired, b)
           After(st, w, h, o, n) ==
             Connection(e, M, st, w, h, inbox[c], o, n, since[c], client[c], heard[c], aired)
<1>2. /\ b > Capacity => After("loop", Nothing, holds[c], outbox[c], Capacity)
      /\ b <= Capacity =>
           /\ m \in M
           /\ After("failed", Nothing, holds[c], outbox[c], b - 1)
           /\ client[c] \in {"closed", "refused"} => After("loop", Nothing, holds[c], outbox[c], b - 1)
           /\ Len(outbox[c]) < Buffer => After("loop", Nothing, holds[c], Append(outbox[c], m), b - 1)
           /\ After("loop", m, "none", outbox[c], b - 1)
  <2>1. /\ Connection(e, M, "loop", Nothing, holds[c], inbox[c], outbox[c], behind[c], since[c], client[c],
                      heard[c], aired)
        /\ Channel(e, M, aired)
    BY <1>1, Unchanged
  <2> QED
    BY <1>1, <2>1, ConnectionRelays
<1> HIDE DEF After
<1>3. ASSUME NEW st \in Steps, NEW w \in M \cup {Nothing}, NEW h \in {"none", "read", "write"}, NEW o \in Seq(M),
             NEW n, After(st, w, h, o, n), behind' = [behind EXCEPT ![c] = n],
             step' = [step EXCEPT ![c] = st], writing' = [writing EXCEPT ![c] = w],
             holds' = [holds EXCEPT ![c] = h], outbox' = [outbox EXCEPT ![c] = o]
      PROVE  SessionsOf(e, M)'
  <2>1. Typed(M, st, w, h, inbox[c], o, client[c], heard[c])
    BY <1>3, Unchanged DEF Typed
  <2>2. Becomes(c, st, w, h, inbox[c], o, n, since[c], client[c], heard[c])
    BY <1>1, <1>3, Same DEF Becomes
  <2> QED
    BY <1>3, <2>1, <2>2, OneBecomes DEF After
<1>4. /\ step = [step EXCEPT ![c] = "loop"] /\ writing = [writing EXCEPT ![c] = Nothing]
      /\ holds = [holds EXCEPT ![c] = holds[c]]
      /\ outbox = [outbox EXCEPT ![c] = outbox[c]] /\ holds[c] \in {"none", "read", "write"}
      /\ outbox[c] \in Seq(M)
  BY <1>1, Unchanged, Same DEF Typed
<1>5. "loop" \in Steps /\ "failed" \in Steps
  BY DEF Steps
<1>6. CASE b > Capacity
  <2>1. behind' = [behind EXCEPT ![c] = Capacity] /\ UNCHANGED <<step, writing, holds, outbox>>
    BY <1>6 DEF Relay, handlerVars
  <2>2. /\ step' = [step EXCEPT ![c] = "loop"] /\ writing' = [writing EXCEPT ![c] = Nothing]
        /\ holds' = [holds EXCEPT ![c] = holds[c]] /\ outbox' = [outbox EXCEPT ![c] = outbox[c]]
        /\ behind' = [behind EXCEPT ![c] = Capacity]
    BY <1>4, <2>1
  <2>3. After("loop", Nothing, holds[c], outbox[c], Capacity) /\ Nothing \in M \cup {Nothing}
    BY <1>2, <1>6
  <2> HIDE DEF m, b
  <2> QED
    BY <1>3, <1>4, <1>5, <2>2, <2>3
<1>7. CASE ~ (b > Capacity)
  <2>1. b <= Capacity
    <3>1. b \in Nat
      BY Unchanged DEF Connection, Counts
    <3> HIDE DEF b
    <3> QED
      BY <1>1, <1>7, <3>1
  <2>2. behind' = [behind EXCEPT ![c] = b - 1] /\ Send(c, m, "none", "loop")
    BY <1>7 DEF Relay, Oldest
  <2> HIDE DEF m, b
  <2>3. m \in M
    BY <1>2, <2>1
  <2>4. CASE Gone(c) /\ Advance(c, "failed") /\ UNCHANGED <<writing, holds, outbox>>
    <3>1. /\ step' = [step EXCEPT ![c] = "failed"] /\ writing' = [writing EXCEPT ![c] = Nothing]
          /\ holds' = [holds EXCEPT ![c] = holds[c]] /\ outbox' = [outbox EXCEPT ![c] = outbox[c]]
      BY <1>4, <2>4 DEF Advance
    <3>2. After("failed", Nothing, holds[c], outbox[c], b - 1) /\ Nothing \in M \cup {Nothing}
      BY <1>2, <2>1
    <3> QED
      BY <1>3, <1>4, <1>5, <2>2, <3>1, <3>2
  <2>5. CASE Advance(c, "loop") /\ Gone(c) /\ UNCHANGED <<writing, holds, outbox>>
    <3>1. /\ step' = [step EXCEPT ![c] = "loop"] /\ writing' = [writing EXCEPT ![c] = Nothing]
          /\ holds' = [holds EXCEPT ![c] = holds[c]] /\ outbox' = [outbox EXCEPT ![c] = outbox[c]]
      BY <1>4, <2>5 DEF Advance
    <3>2. After("loop", Nothing, holds[c], outbox[c], b - 1) /\ Nothing \in M \cup {Nothing}
      BY <1>2, <2>1, <2>5 DEF Gone
    <3> QED
      BY <1>3, <1>4, <1>5, <2>2, <3>1, <3>2
  <2>6. CASE /\ Advance(c, "loop") /\ Len(outbox[c]) < Buffer
             /\ outbox' = [outbox EXCEPT ![c] = Append(@, m)] /\ UNCHANGED <<writing, holds>>
    <3>1. outbox' = [outbox EXCEPT ![c] = Append(outbox[c], m)] /\ Append(outbox[c], m) \in Seq(M)
      BY <1>4, <2>3, <2>6, AppendProperties
    <3>2. /\ step' = [step EXCEPT ![c] = "loop"] /\ writing' = [writing EXCEPT ![c] = Nothing]
          /\ holds' = [holds EXCEPT ![c] = holds[c]]
      BY <1>4, <2>6 DEF Advance
    <3>3. After("loop", Nothing, holds[c], Append(outbox[c], m), b - 1) /\ Nothing \in M \cup {Nothing}
      BY <1>2, <2>1, <2>6
    <3> QED
      BY <1>3, <1>4, <1>5, <2>2, <3>1, <3>2, <3>3
  <2>7. CASE /\ Advance(c, "loop") /\ UNCHANGED outbox
             /\ writing' = [writing EXCEPT ![c] = m] /\ holds' = [holds EXCEPT ![c] = "none"]
    BY <1>2, <1>3, <1>4, <1>5, <2>1, <2>2, <2>3, <2>7 DEF Advance
  <2> QED
    BY <2>2, <2>4, <2>5, <2>6, <2>7 DEF Send
<1> QED
  BY <1>6, <1>7

LEMMA SessionsFlush ==
  ASSUME SessionAssumption, NEW e, NEW M, Nothing \notin M, SessionsOf(e, M), NEW c \in Conns, Flush(c)
  PROVE  SessionsOf(e, M)'
<1>1. /\ writing[c] # Nothing /\ Buffer \in Nat
      /\ UNCHANGED <<inbox, aired, behind, since, client, heard>>
      /\ writing' = [writing EXCEPT ![c] = Nothing] /\ holds' = [holds EXCEPT ![c] = "none"]
  BY DEF Flush, channelVars, clientVars, SessionAssumption
<1> DEFINE After(st, o) ==
             Connection(e, M, st, Nothing, "none", inbox[c], o, behind[c], since[c], client[c], heard[c], aired)
<1>2. /\ After("failed", outbox[c])
      /\ client[c] \in {"closed", "refused"} => After(step[c], outbox[c])
      /\ Len(outbox[c]) < Buffer => After(step[c], Append(outbox[c], writing[c]))
  BY <1>1, Unchanged, ConnectionFlushes
<1> HIDE DEF After
<1>3. ASSUME NEW st \in Steps, NEW o \in Seq(M), After(st, o),
             step' = [step EXCEPT ![c] = st], outbox' = [outbox EXCEPT ![c] = o]
      PROVE  SessionsOf(e, M)'
  <2>1. Typed(M, st, Nothing, "none", inbox[c], o, client[c], heard[c])
    BY <1>3, Unchanged DEF Typed
  <2>2. Becomes(c, st, Nothing, "none", inbox[c], o, behind[c], since[c], client[c], heard[c])
    BY <1>1, <1>3, Same DEF Becomes
  <2> QED
    BY <1>3, <2>1, <2>2, OneBecomes DEF After
<1>4. /\ step = [step EXCEPT ![c] = step[c]] /\ step[c] \in Steps /\ "failed" \in Steps
      /\ outbox = [outbox EXCEPT ![c] = outbox[c]] /\ outbox[c] \in Seq(M) /\ writing[c] \in M
  BY <1>1, Unchanged, Same DEF Steps, Typed
<1>5. CASE Gone(c) /\ (Advance(c, "failed") \/ UNCHANGED step) /\ UNCHANGED outbox
  BY <1>2, <1>3, <1>4, <1>5 DEF Advance, Gone
<1>6. CASE Len(outbox[c]) < Buffer /\ outbox' = [outbox EXCEPT ![c] = Append(@, writing[c])] /\ UNCHANGED step
  <2>1. outbox' = [outbox EXCEPT ![c] = Append(outbox[c], writing[c])] /\ Append(outbox[c], writing[c]) \in Seq(M)
    BY <1>4, <1>6, AppendProperties
  <2> QED
    BY <1>2, <1>3, <1>4, <1>6, <2>1
<1> QED
  BY <1>5, <1>6 DEF Flush

LEMMA SessionsSubscribe ==
  ASSUME SessionAssumption, NEW e, NEW M, SessionsOf(e, M), NEW c \in Conns, Subscribe(c)
  PROVE  SessionsOf(e, M)'
<1>1. /\ writing[c] = Nothing /\ step[c] # "away"
      /\ UNCHANGED <<writing, holds, inbox, outbox, aired, client, heard>>
      /\ step' = [step EXCEPT ![c] = "loop"] /\ behind' = [behind EXCEPT ![c] = 0]
      /\ since' = [since EXCEPT ![c] = 0] /\ Capacity \in Nat
  BY DEF Subscribe, At, Advance, clientVars, SessionAssumption
<1>2. Connection(e, M, "loop", Nothing, holds[c], inbox[c], outbox[c], 0, 0, client[c], heard[c], aired)
  <2>1. /\ Connection(e, M, step[c], Nothing, holds[c], inbox[c], outbox[c], behind[c], since[c], client[c],
                      heard[c], aired)
        /\ Channel(e, M, aired)
    BY <1>1, Unchanged
  <2> QED
    BY <1>1, <2>1, ConnectionSubscribes
<1>3. "loop" \in Steps
  BY DEF Steps
<1>4. Typed(M, "loop", Nothing, holds[c], inbox[c], outbox[c], client[c], heard[c])
  BY <1>3, Unchanged DEF Typed
<1>5. Becomes(c, "loop", Nothing, holds[c], inbox[c], outbox[c], 0, 0, client[c], heard[c])
  BY <1>1, Same DEF Becomes
<1> QED
  BY <1>2, <1>4, <1>5, OneBecomes

\* The handler goes on to s, or takes a request, or the client goes on; nothing is sent.
LEMMA SessionsChange ==
  ASSUME SessionAssumption, NEW e, NEW M, SessionsOf(e, M), NEW c \in Conns,
         NEW s \in Steps, step' = [step EXCEPT ![c] = s],
         s \in {"loop", "posted"} => step[c] \in {"loop", "posted"}, writing[c] # Nothing => s = step[c],
         NEW i \in Seq(Asks), Len(i) <= Buffer, inbox' = [inbox EXCEPT ![c] = i],
         NEW cl \in ClientSteps, cl # "none", client' = [client EXCEPT ![c] = cl],
         cl \notin {"closed", "refused"} => client[c] \notin {"closed", "refused"},
         UNCHANGED <<writing, holds, outbox, channelVars, heard>>
  PROVE  SessionsOf(e, M)'
<1>1. UNCHANGED <<writing, holds, outbox, aired, behind, since, heard>>
  BY DEF channelVars
<1>2. Connection(e, M, s, writing[c], holds[c], i, outbox[c], behind[c], since[c], cl, heard[c], aired)
  BY Unchanged, ConnectionChanges
<1>3. Typed(M, s, writing[c], holds[c], i, outbox[c], cl, heard[c])
  BY Unchanged DEF Typed
<1>4. Becomes(c, s, writing[c], holds[c], i, outbox[c], behind[c], since[c], cl, heard[c])
  BY <1>1, Same DEF Becomes
<1> QED
  BY <1>2, <1>3, <1>4, OneBecomes

LEMMA SessionsClose ==
  ASSUME SessionAssumption, NEW e, NEW M, SessionsOf(e, M), NEW c \in Conns, ClientCloses(c)
  PROVE  SessionsOf(e, M)'
<1>1. /\ UNCHANGED <<step, writing, holds, inbox, aired, behind, since, heard>> /\ Buffer \in Nat
      /\ client' = [client EXCEPT ![c] = "closed"] /\ outbox' = [outbox EXCEPT ![c] = <<>>]
  BY DEF ClientCloses, handlerVars, channelVars, SessionAssumption
<1>2. Connection(e, M, step[c], writing[c], holds[c], inbox[c], <<>>, behind[c], since[c], "closed", heard[c], aired)
  BY <1>1, Unchanged, ConnectionCloses
<1>3. Typed(M, step[c], writing[c], holds[c], inbox[c], <<>>, "closed", heard[c])
  BY Unchanged DEF Typed, ClientSteps
<1>4. Becomes(c, step[c], writing[c], holds[c], inbox[c], <<>>, behind[c], since[c], "closed", heard[c])
  BY <1>1, Same DEF Becomes
<1> QED
  BY <1>2, <1>3, <1>4, OneBecomes

\* What it reads is no older than what it heard.
LEMMA SessionsRead ==
  ASSUME SessionAssumption, NEW e, NEW M, SessionsOf(e, M), NEW c \in Conns, ClientReads(c)
  PROVE  /\ SessionsOf(e, M)'
         /\ Head(outbox[c]) \in M
         /\ heard' = [heard EXCEPT ![c] = IF Snap(Head(outbox[c])) THEN Head(outbox[c]) ELSE heard[c]]
         /\ (Before(e, heard[c], heard'[c]) \/ heard'[c] = heard[c])
<1> DEFINE m == Head(outbox[c])
           h == IF Snap(m) THEN m ELSE heard[c]
           cl == ClientAfter(c, m)
<1>1. /\ UNCHANGED <<step, writing, holds, inbox, aired, behind, since>> /\ outbox[c] # <<>> /\ Buffer \in Nat
      /\ client' = [client EXCEPT ![c] = cl] /\ outbox' = [outbox EXCEPT ![c] = Tail(outbox[c])]
      /\ client[c] \notin {"closed", "refused"} /\ client[c] # "none"
  <2>1. outbox' = [outbox EXCEPT ![c] = Tail(@)]
    BY DEF ClientReads
  <2>2. outbox' = [outbox EXCEPT ![c] = Tail(outbox[c])]
    BY <2>1, Same
  <2> QED
    BY <2>2 DEF ClientReads, handlerVars, channelVars, SessionAssumption
<1>2. heard' = [heard EXCEPT ![c] = h]
  BY Same DEF ClientReads, Snap
<1>3. m \in M /\ Tail(outbox[c]) \in Seq(M)
  BY <1>1, Unchanged, HeadTailProperties DEF Typed
<1>4. h \in M \cup {Nothing}
  BY <1>3, Unchanged DEF Typed
<1>5. cl \in ClientSteps /\ cl # "none"
  BY <1>1, Unchanged DEF ClientAfter, ClientSteps, Typed
<1>6. /\ Connection(e, M, step[c], writing[c], holds[c], inbox[c], Tail(outbox[c]), behind[c], since[c], cl, h, aired)
      /\ (Before(e, heard[c], h) \/ h = heard[c])
  <2>1. Connection(e, M, step[c], writing[c], holds[c], inbox[c], outbox[c], behind[c], since[c], client[c],
                   heard[c], aired)
    BY Unchanged
  <2> HIDE DEF cl
  <2> QED
    BY <1>1, <1>5, <2>1, ConnectionReads
<1>7. heard'[c] = h
  BY <1>2 DEF SessionsOf, Shapes
<1> HIDE DEF h, cl, m
<1>8. SessionsOf(e, M)'
  <2>1. Typed(M, step[c], writing[c], holds[c], inbox[c], Tail(outbox[c]), cl, h)
    BY <1>3, <1>4, <1>5, Unchanged DEF Typed
  <2>2. Becomes(c, step[c], writing[c], holds[c], inbox[c], Tail(outbox[c]), behind[c], since[c], cl, h)
    BY <1>1, <1>2, Same DEF Becomes
  <2> QED
    BY <1>6, <2>1, <2>2, OneBecomes
<1> QED
  BY <1>2, <1>3, <1>6, <1>7, <1>8 DEF h, m

\* m may be broadcast now.
MayAir(e, m) ==
  /\ \A d \in Conns : Ahead(e, heard[d], outbox[d], writing[d], m)
  /\ \A k \in 1 .. Len(aired) : Before(e, aired[k], m)

\* m is broadcast, and counted.
LEMMA AllAir ==
  ASSUME SessionAssumption, NEW e, NEW M, SessionsOf(e, M), NEW m \in M, Air(m), MayAir(e, m)
  PROVE  /\ aired' = Aired(aired, m) /\ Channel(e, M, aired')
         /\ behind' \in [Conns -> Nat] /\ since' \in [Conns -> Nat]
         /\ \A d \in Conns :
              Connection(e, M, step[d], writing[d], holds[d], inbox[d], outbox[d], behind'[d], since'[d], client[d],
                         heard[d], aired')
<1>1. Shapes(M) /\ Channel(e, M, aired) /\ Capacity \in Nat \ {0}
  BY DEF SessionsOf, SessionAssumption
<1>2. /\ aired' = Aired(aired, m)
      /\ behind' = [d \in Conns |-> IF Receives(d) THEN Counted(behind[d], Capacity + 1) ELSE 0]
      /\ since' = [d \in Conns |-> IF Receives(d) THEN Counted(since[d], Capacity) ELSE 0]
  BY DEF Air, Aired, Counted, Lower
<1>3. Channel(e, M, aired')
  BY <1>1, <1>2, ChannelAirs DEF MayAir
<1>4. ASSUME NEW d \in Conns
      PROVE  Connection(e, M, step[d], writing[d], holds[d], inbox[d], outbox[d], behind'[d], since'[d], client[d],
                        heard[d], aired')
  <2>1. /\ Connection(e, M, step[d], writing[d], holds[d], inbox[d], outbox[d], behind[d], since[d], client[d],
                      heard[d], aired)
        /\ Ahead(e, heard[d], outbox[d], writing[d], m)
    BY Unchanged DEF MayAir
  <2>2. IF step[d] \in {"loop", "posted"}
          THEN Connection(e, M, step[d], writing[d], holds[d], inbox[d], outbox[d], Counted(behind[d], Capacity + 1),
                          Counted(since[d], Capacity), client[d], heard[d], Aired(aired, m))
          ELSE Connection(e, M, step[d], writing[d], holds[d], inbox[d], outbox[d], 0, 0, client[d], heard[d],
                          Aired(aired, m))
    BY <1>1, <2>1, ConnectionAirs
  <2> QED
    BY <1>2, <2>2 DEF Receives
<1>5. behind' \in [Conns -> Nat] /\ since' \in [Conns -> Nat]
  <2>1. \A d \in Conns : behind[d] \in Nat /\ since[d] \in Nat
    BY <1>1 DEF Shapes
  <2> QED
    BY <1>1, <1>2, <2>1 DEF Counted
<1> QED
  BY <1>2, <1>3, <1>4, <1>5

\* m is broadcast; the handler of c goes on to s, and may have taken a request.
LEMMA SessionsAir ==
  ASSUME SessionAssumption, NEW e, NEW M, SessionsOf(e, M), NEW c \in Conns, NEW m \in M, Air(m), MayAir(e, m),
         NEW s \in Steps, step' = [step EXCEPT ![c] = s],
         s \in {"loop", "posted"} => step[c] \in {"loop", "posted"}, writing[c] # Nothing => s = step[c],
         NEW i \in Seq(Asks), Len(i) <= Buffer, inbox' = [inbox EXCEPT ![c] = i],
         client[c] # "none", UNCHANGED <<writing, holds, outbox, client, heard>>
  PROVE  SessionsOf(e, M)' /\ aired' = Aired(aired, m)
<1>1. Shapes(M)
  BY DEF SessionsOf
<1>2. /\ aired' = Aired(aired, m) /\ Channel(e, M, aired')
      /\ behind' \in [Conns -> Nat] /\ since' \in [Conns -> Nat]
      /\ \A d \in Conns :
           Connection(e, M, step[d], writing[d], holds[d], inbox[d], outbox[d], behind'[d], since'[d], client[d],
                      heard[d], aired')
  BY AllAir
<1>3. /\ step'[c] = s /\ inbox'[c] = i
      /\ \A d \in Conns : d # c => step'[d] = step[d] /\ inbox'[d] = inbox[d]
  BY <1>1 DEF Shapes
<1>4. \A d \in Conns : ConnectionOf(d, e, M)'
  <2>1. ASSUME NEW d \in Conns, d # c PROVE ConnectionOf(d, e, M)'
    BY <1>2, <1>3, <2>1 DEF ConnectionOf
  <2>2. ConnectionOf(c, e, M)'
    <3>1. Connection(e, M, s, writing[c], holds[c], i, outbox[c], behind'[c], since'[c], client[c], heard[c], aired')
      BY <1>2, ConnectionChanges
    <3> QED
      BY <1>3, <3>1 DEF ConnectionOf
  <2> QED
    BY <2>1, <2>2
<1>5. Shapes(M)'
  BY <1>1, <1>2 DEF Shapes
<1> QED
  BY <1>2, <1>4, <1>5 DEF SessionsOf

\* m is broadcast, and no handler has a part in it.
LEMMA AirsAlone ==
  ASSUME SessionAssumption, NEW e, NEW M, SessionsOf(e, M), NEW m \in M, Snap(m), Air(m), MayAir(e, m),
         UNCHANGED <<step, writing, holds, inbox, outbox, client, heard>>
  PROVE  SessionsOf(e, M)' /\ AiredLast(aired', m)
<1>1. Shapes(M) /\ aired \in Seq(M) /\ Len(aired) <= Capacity /\ Capacity \in Nat \ {0}
  BY DEF SessionsOf, Channel, SessionAssumption
<1>2. /\ aired' = Aired(aired, m) /\ Channel(e, M, aired')
      /\ behind' \in [Conns -> Nat] /\ since' \in [Conns -> Nat]
      /\ \A d \in Conns :
           Connection(e, M, step[d], writing[d], holds[d], inbox[d], outbox[d], behind'[d], since'[d], client[d],
                      heard[d], aired')
  BY AllAir
<1>3. Shapes(M)'
  BY <1>1, <1>2 DEF Shapes
<1>4. \A d \in Conns : ConnectionOf(d, e, M)'
  BY <1>2 DEF ConnectionOf
<1>5. AiredLast(aired', m)
  BY <1>1, <1>2, AiredLastAirs
<1> QED
  BY <1>2, <1>3, <1>4, <1>5 DEF SessionsOf

-----------------------------------------------------------------------------
(* What the programs show *)

LEMMA WindowIs ==
  ASSUME NEW t \in Nat, NEW k \in Nat \ {0}
  PROVE  /\ Window(t, k) \in Seq(Nat) /\ Len(Window(t, k)) = Lower(t, k)
         /\ Lower(t, k) \in Nat
         /\ \A i \in 1 .. Len(Window(t, k)) : Window(t, k)[i] = t - Len(Window(t, k)) + i
         /\ Window(t, k) = <<>> <=> t = 0
         /\ t # 0 => Last(Window(t, k)) = t
<1> DEFINE n == Lower(t, k)
           w == [i \in 1 .. n |-> t - n + i]
<1>1. n \in Nat /\ n <= t /\ (n = 0 <=> t = 0)
  BY DEF Lower
<1>2. Window(t, k) = w
  BY DEF Window, Lower
<1> HIDE DEF n
<1>3. w \in [1 .. n -> Nat]
  BY <1>1
<1>4. w \in Seq(Nat) /\ Len(w) = n /\ \A i \in 1 .. n : w[i] = t - n + i
  BY <1>1, <1>3
<1> HIDE DEF w
<1>5. w = <<>> <=> t = 0
  BY <1>1, <1>4
<1>6. t # 0 => Last(w) = t
  BY <1>1, <1>4 DEF Last
<1> QED
  BY <1>1, <1>2, <1>4, <1>5, <1>6 DEF n

\* Whatever is as long as a window, and counts like one, is one.
LEMMA IsWindow ==
  ASSUME NEW t \in Nat, NEW k \in Nat \ {0}, NEW s \in Seq(Nat), Len(s) = Lower(t, k),
         \A i \in 1 .. Len(s) : s[i] = t - Len(s) + i
  PROVE  s = Window(t, k)
<1> DEFINE w == Window(t, k)
<1>1. w \in Seq(Nat) /\ Len(w) = Len(s) /\ \A i \in 1 .. Len(w) : w[i] = t - Len(w) + i
  BY WindowIs
<1> HIDE DEF w
<1>2. \A i \in 1 .. Len(s) : s[i] = w[i]
  BY <1>1
<1>3. s = w
  BY <1>1, <1>2, SeqEqual
<1> QED
  BY <1>3 DEF w

\* The newest k of a longer window.
LEMMA LastOfIs ==
  ASSUME NEW t \in Nat, NEW k \in Nat \ {0}, NEW s \in Seq(Nat), Len(s) <= t, Lower(t, k) <= Len(s),
         \A i \in 1 .. Len(s) : s[i] = t - Len(s) + i
  PROVE  C!LastOf(s, k) = Window(t, k)
<1> DEFINE l == Len(s)
<1>1. l \in Nat
  OBVIOUS
<1>2. CASE l > k
  <2>1. l - k + 1 \in 1 .. l + 1 /\ l - (l - k + 1) + 1 = k /\ l - k + 1 <= l /\ Lower(t, k) = k
    BY <1>1, <1>2 DEF Lower
  <2> DEFINE r == SubSeq(s, l - k + 1, l)
  <2>2. /\ \A i \in l - k + 1 .. l : s[i] \in Nat
        /\ l - k + 1 \in Int /\ l \in Int
    BY <1>1, <1>2
  <2>3. /\ r \in Seq(Nat) /\ Len(r) = k
        /\ \A i \in 1 .. k : r[i] = s[l - k + 1 + i - 1]
    BY <1>1, <1>2, <2>1, <2>2, SubSeqProperties
  <2> HIDE DEF r
  <2>6. \A i \in 1 .. k : l - k + 1 + i - 1 \in 1 .. l /\ t - l + (l - k + 1 + i - 1) = t - k + i
    BY <1>1, <1>2
  <2>4. \A i \in 1 .. Len(r) : r[i] = t - Len(r) + i
    BY <2>3, <2>6
  <2>5. r = Window(t, k)
    BY <2>1, <2>3, <2>4, IsWindow
  <2> QED
    BY <1>2, <2>5 DEF C!LastOf, r
<1>3. CASE ~ (l > k)
  <2>1. Len(s) = Lower(t, k)
    BY <1>1, <1>3 DEF Lower
  <2> QED
    BY <1>3, <2>1, IsWindow DEF C!LastOf
<1> QED
  BY <1>2, <1>3

\* chat's room, and what it shows of it.
LEMMA ChatAdds ==
  ASSUME ExampleAssumption, NEW t \in Nat
  PROVE  C!AddMessage(Window(t, Keep), t + 1) = Window(t + 1, Keep)
<1>1. Keep \in Nat \ {0}
  BY DEF ExampleAssumption
<1> DEFINE w == Window(t, Keep)
           s == Append(w, t + 1)
<1>2. w \in Seq(Nat) /\ Len(w) = Lower(t, Keep) /\ Lower(t, Keep) \in Nat /\ \A i \in 1 .. Len(w) : w[i] = t - Len(w) + i
  BY <1>1, WindowIs
<1> HIDE DEF w
<1>3. s \in Seq(Nat) /\ Len(s) = Len(w) + 1 /\ s[Len(w) + 1] = t + 1 /\ \A i \in 1 .. Len(w) : s[i] = w[i]
  BY <1>2, AppendProperties
<1> HIDE DEF s
<1>4. ASSUME NEW i \in 1 .. Len(s) PROVE s[i] = (t + 1) - Len(s) + i
  <2>1. CASE i = Len(w) + 1
    BY <1>2, <1>3, <2>1
  <2>2. CASE i \in 1 .. Len(w)
    <3>1. s[i] = t - Len(w) + i
      BY <1>2, <1>3, <2>2
    <3> QED
      BY <1>2, <1>3, <2>2, <3>1
  <2> QED
    BY <1>2, <1>3, <2>1, <2>2
<1>5. Len(s) <= t + 1 /\ Lower(t + 1, Keep) <= Len(s)
  BY <1>1, <1>2, <1>3 DEF Lower
<1>6. C!LastOf(s, Keep) = Window(t + 1, Keep)
  <2>1. t + 1 \in Nat
    OBVIOUS
  <2> QED
    BY <1>1, <1>3, <1>4, <1>5, <2>1, LastOfIs
<1> QED
  BY <1>6 DEF C!AddMessage, s, w

LEMMA ChatShows ==
  ASSUME ExampleAssumption, NEW t \in Nat, NEW r
  PROVE  C!View(Window(t, Keep)) = ViewOf("chat", t, r)
<1>1. Keep \in Nat \ {0} /\ Recent \in Nat \ {0} /\ Recent <= Keep
  BY DEF ExampleAssumption
<1> DEFINE w == Window(t, Keep)
<1>2. w \in Seq(Nat) /\ Len(w) = Lower(t, Keep) /\ Lower(t, Keep) \in Nat /\ \A i \in 1 .. Len(w) : w[i] = t - Len(w) + i
  BY <1>1, WindowIs
<1> HIDE DEF w
<1>3. Len(w) <= t /\ Lower(t, Recent) <= Len(w)
  BY <1>1, <1>2 DEF Lower
<1>4. C!LastOf(w, Recent) = Window(t, Recent)
  BY <1>1, <1>2, <1>3, LastOfIs
<1> QED
  BY <1>4 DEF C!View, ViewOf, w

\* The rooms of webchat and process when one more is added.
LEMMA WindowAdds ==
  ASSUME NEW t \in Nat, NEW k \in Nat \ {0}
  PROVE  LET w == Window(t, k) IN
         (IF Len(w) = k THEN Append(Tail(w), t + 1) ELSE Append(w, t + 1)) = Window(t + 1, k)
<1> DEFINE w == Window(t, k)
<1>1. w \in Seq(Nat) /\ Len(w) = Lower(t, k) /\ Lower(t, k) \in Nat /\ \A i \in 1 .. Len(w) : w[i] = t - Len(w) + i
  BY WindowIs
<1> HIDE DEF w
<1>2. CASE Len(w) = k
  <2> DEFINE s == Append(Tail(w), t + 1)
  <2>1. Tail(w) \in Seq(Nat) /\ Len(Tail(w)) = k - 1 /\ \A i \in 1 .. k - 1 : Tail(w)[i] = w[i + 1]
    BY <1>1, <1>2, HeadTailProperties
  <2>2. s \in Seq(Nat) /\ Len(s) = k /\ s[k] = t + 1 /\ \A i \in 1 .. k - 1 : s[i] = Tail(w)[i]
    BY <2>1, AppendProperties
  <2> HIDE DEF s
  <2>3. ASSUME NEW i \in 1 .. Len(s) PROVE s[i] = (t + 1) - Len(s) + i
    <3>1. CASE i = k
      BY <1>1, <1>2, <2>2, <3>1
    <3>2. CASE i \in 1 .. k - 1
      <4>1. i + 1 \in 1 .. Len(w) /\ s[i] = w[i + 1]
        BY <1>2, <2>1, <2>2, <3>2
      <4>2. s[i] = t - Len(w) + (i + 1)
        BY <1>1, <4>1
      <4> QED
        BY <1>1, <1>2, <2>2, <3>2, <4>2
    <3> QED
      BY <2>2, <3>1, <3>2
  <2>4. Len(s) = Lower(t + 1, k)
    BY <1>1, <1>2, <2>2 DEF Lower
  <2>6. t + 1 \in Nat
    OBVIOUS
  <2>5. s = Window(t + 1, k)
    BY <2>6, <2>2, <2>3, <2>4, IsWindow
  <2> QED
    BY <1>2, <2>5 DEF s, w
<1>3. CASE Len(w) # k
  <2> DEFINE s == Append(w, t + 1)
  <2>1. s \in Seq(Nat) /\ Len(s) = Len(w) + 1 /\ s[Len(w) + 1] = t + 1 /\ \A i \in 1 .. Len(w) : s[i] = w[i]
    BY <1>1, AppendProperties
  <2> HIDE DEF s
  <2>2. ASSUME NEW i \in 1 .. Len(s) PROVE s[i] = (t + 1) - Len(s) + i
    <3>1. CASE i = Len(w) + 1
      BY <1>1, <2>1, <3>1
    <3>2. CASE i \in 1 .. Len(w)
      <4>1. s[i] = t - Len(w) + i
        BY <1>1, <2>1, <3>2
      <4> QED
        BY <1>1, <2>1, <3>2, <4>1
    <3> QED
      BY <1>1, <2>1, <3>1, <3>2
  <2>5. t + 1 \in Nat
    OBVIOUS
  <2>3. Len(s) = Lower(t + 1, k)
    BY <1>1, <1>3, <2>1 DEF Lower
  <2>4. s = Window(t + 1, k)
    BY <2>1, <2>2, <2>3, <2>5, IsWindow
  <2> QED
    BY <1>3, <2>4 DEF s, w
<1> QED
  BY <1>2, <1>3

Programs == {"chat", "webchat", "process"}

LEMMA SameNothing == P!Nothing = Nothing /\ C!Nothing = Nothing
BY DEF Nothing, Message, P!Nothing, P!Message, C!Nothing, C!Message

\* A snapshot tells how far the room was.
LEMMA AgeIs ==
  ASSUME ExampleAssumption, NEW e \in Programs, NEW t \in Nat, NEW r
  PROVE  LET m == Snapshot(ViewOf(e, t, r)) IN Snap(m) /\ m # Nothing /\ Age(e, m) = t
<1> DEFINE m == Snapshot(ViewOf(e, t, r))
           k == IF e = "process" THEN MaxLines ELSE IF e = "chat" THEN Recent ELSE Keep
<1>1. k \in Nat \ {0}
  BY DEF ExampleAssumption
<1> DEFINE w == Window(t, k)
<1>2. (w = <<>> <=> t = 0) /\ (t # 0 => Last(w) = t)
  BY <1>1, WindowIs
<1>3. Snap(m)
  BY DEF Snap, Snapshot
<1>4. m # Nothing
  BY <1>3, NothingIs
<1>5. Age(e, m) = IF w = <<>> THEN 0 ELSE Last(w)
  <2>1. CASE e = "process"
    <3>1. m.data.lines = w
      BY <2>1 DEF Snapshot, ViewOf
    <3> HIDE DEF m, w
    <3> QED
      BY <2>1, <3>1, <1>4, SameNothing DEF Age, P!Latest, P!Last, Last
  <2>2. CASE e # "process"
    <3>1. m.data.messages = w
      BY <2>2 DEF Snapshot, ViewOf
    <3> HIDE DEF m, w
    <3> QED
      BY <2>2, <3>1, <1>4, SameNothing DEF Age, C!Latest, C!Last, Last
  <2> QED
    BY <2>1, <2>2
<1> HIDE DEF m, w
<1>6. Age(e, m) = t
  BY <1>2, <1>5
<1> QED
  BY <1>3, <1>4, <1>6 DEF m

LEMMA AgeOfNothing ==
  \A e : Age(e, Nothing) = 0
BY SameNothing DEF Age, P!Latest, C!Latest

LEMMA WiredIs ==
  ASSUME ExampleAssumption, NEW e \in Programs, NEW n \in Nat
  PROVE  /\ Nothing \notin Wired(e, n)
         /\ Replies \subseteq Wired(e, n) /\ \A x \in Replies : ~ Snap(x)
         /\ \A x \in Wired(e, n) : Snap(x) =>
              /\ Age(e, x) \in 0 .. n
              /\ \E r \in BOOLEAN : x = Snapshot(ViewOf(e, Age(e, x), r))
         /\ \A t \in 0 .. n, r \in BOOLEAN : Snapshot(ViewOf(e, t, r)) \in Wired(e, n)
<1>1. \A x \in Replies : ~ Snap(x) /\ x # Nothing
  BY DEF Replies, Snap, Message, Nothing
<1>2. ASSUME NEW x \in Views(e, n)
      PROVE  x # Nothing /\ Age(e, x) \in 0 .. n /\ \E r \in BOOLEAN : x = Snapshot(ViewOf(e, Age(e, x), r))
  <2>1. PICK t \in 0 .. n, r \in BOOLEAN : x = Snapshot(ViewOf(e, t, r))
    BY DEF Views
  <2>2. t \in Nat
    OBVIOUS
  <2>3. x # Nothing /\ Age(e, x) = t
    BY <2>1, <2>2, AgeIs
  <2> QED
    BY <2>1, <2>3
<1>3. \A t \in 0 .. n, r \in BOOLEAN : Snapshot(ViewOf(e, t, r)) \in Wired(e, n)
  BY DEF Wired, Views
<1> QED
  BY <1>1, <1>2, <1>3 DEF Wired

LEMMA WiredWider ==
  ASSUME NEW e, NEW n \in Nat, NEW l \in Nat, n <= l
  PROVE  Wired(e, n) \subseteq Wired(e, l)
<1>1. 0 .. n \subseteq 0 .. l
  OBVIOUS
<1> QED
  BY <1>1 DEF Wired, Views

LEMMA RepliesMayAir ==
  ASSUME NEW e, NEW m, ~ Snap(m)
  PROVE  MayAir(e, m)
BY DEF MayAir, Ahead, Before

\* No snapshot goes farther than the room.
LEMMA NewestMayAir ==
  ASSUME ExampleAssumption, NEW e \in Programs, NEW n \in Nat, NEW l \in Nat, n <= l, NEW r,
         SessionsOf(e, Wired(e, n))
  PROVE  MayAir(e, Snapshot(ViewOf(e, l, r)))
<1> DEFINE m == Snapshot(ViewOf(e, l, r))
           M == Wired(e, n)
<1>1. Age(e, m) = l
  BY AgeIs
<1>2. \A x \in M \cup {Nothing} : Snap(x) => Age(e, x) \in Nat /\ Age(e, x) <= n
  BY WiredIs, NothingIs
<1> HIDE DEF m, M
<1>3. \A x \in M \cup {Nothing} : Before(e, x, m)
  BY <1>1, <1>2 DEF Before
<1>4. Shapes(M) /\ Channel(e, M, aired)
  BY DEF SessionsOf, M
<1>5. \A k \in 1 .. Len(aired) : aired[k] \in M
  BY <1>4 DEF Channel
<1>6. ASSUME NEW d \in Conns PROVE Ahead(e, heard[d], outbox[d], writing[d], m)
  <2>1. heard[d] \in M \cup {Nothing} /\ writing[d] \in M \cup {Nothing} /\ outbox[d] \in Seq(M)
    BY <1>4 DEF Shapes
  <2>2. \A k \in 1 .. Len(outbox[d]) : outbox[d][k] \in M
    BY <2>1
  <2> QED
    BY <1>3, <2>1, <2>2 DEF Ahead
<1>7. MayAir(e, m)
  BY <1>3, <1>5, <1>6 DEF MayAir
<1> QED
  BY <1>7 DEF m

LEMMA SessionsWider ==
  ASSUME NEW e, NEW M, NEW N, M \subseteq N, SessionsOf(e, M)
  PROVE  SessionsOf(e, N)
<1>1. Shapes(M) /\ Channel(e, M, aired) /\ \A c \in Conns : ConnectionOf(c, e, M)
  BY DEF SessionsOf
<1>2. Seq(M) \subseteq Seq(N)
  BY SeqWider
<1>3. Shapes(N)
  BY <1>1, <1>2 DEF Shapes
<1>4. Channel(e, N, aired)
  BY <1>1, <1>2 DEF Channel
<1>5. ASSUME NEW c \in Conns PROVE ConnectionOf(c, e, N)
  BY <1>1, ConnectionWider DEF ConnectionOf
<1> QED
  BY <1>3, <1>4, <1>5 DEF SessionsOf

-----------------------------------------------------------------------------
(* What all programs do *)

\* Nobody has connected.
LEMMA SessionsStart ==
  ASSUME SessionAssumption, NEW e, NEW M, SessionInit
  PROVE  SessionsOf(e, M)
<1>1. /\ step = [c \in Conns |-> "away"] /\ writing = [c \in Conns |-> Nothing] /\ holds = [c \in Conns |-> "none"]
      /\ inbox = [c \in Conns |-> <<>>] /\ outbox = [c \in Conns |-> <<>>] /\ aired = <<>>
      /\ behind = [c \in Conns |-> 0] /\ since = [c \in Conns |-> 0] /\ client = [c \in Conns |-> "none"]
      /\ heard = [c \in Conns |-> Nothing]
  BY DEF SessionInit
<1>2. "away" \in Steps /\ "none" \in ClientSteps
  BY DEF Steps, ClientSteps
<1>3. Shapes(M)
  BY <1>1, <1>2 DEF Shapes
<1>4. Len(<<>>) = 0 /\ <<>> \in Seq(M) /\ <<>> \in Seq(Asks) /\ 0 <= Capacity /\ 0 <= Buffer
  BY DEF SessionAssumption
<1>5. Channel(e, M, aired)
  BY <1>1, <1>4 DEF Channel
<1>6. Line(e, M, Nothing, <<>>, Nothing)
  BY <1>4, NothingIs DEF Line, Before
<1>7. Counts(<<>>, 0, 0)
  BY <1>4 DEF Counts, SessionAssumption
<1>8. ASSUME NEW c \in Conns PROVE ConnectionOf(c, e, M)
  BY <1>1, <1>4, <1>6, <1>7 DEF ConnectionOf, Connection
<1> QED
  BY <1>3, <1>5, <1>8 DEF SessionsOf

\* Who is being served, and whether no message waits to be broadcast.
LEMMA StepKeeps ==
  ASSUME NEW M, Shapes(M), NEW c \in Conns, NEW s, step' = [step EXCEPT ![c] = s]
  PROVE  /\ Served' = IF s \in Out THEN Served \ {c} ELSE Served \cup {c}
         /\ step[c] # "posted" => (Quiet' => Quiet)
<1>1. step'[c] = s /\ \A d \in Conns : d # c => step'[d] = step[d]
  BY DEF Shapes
<1>2. Served' = IF s \in Out THEN Served \ {c} ELSE Served \cup {c}
  <2>1. Served' = {d \in Conns : step'[d] \notin Out}
    BY DEF Served
  <2> QED
    BY <1>1, <2>1 DEF Served
<1>3. step[c] # "posted" => (Quiet' => Quiet)
  BY <1>1 DEF Quiet
<1> QED
  BY <1>2, <1>3

\* Nothing was broadcast, nobody came or went.
Kept(e, M) == SessionsOf(e, M)' /\ Served' = Served /\ (Quiet' => Quiet) /\ UNCHANGED <<aired, requested>>

LEMMA SendKeeps ==
  ASSUME NEW M, Shapes(M), NEW c \in Conns, NEW m, NEW g, NEW s \in Waits, Send(c, m, g, s),
         step[c] \notin Out, step[c] # "posted"
  PROVE  Served' = Served /\ (Quiet' => Quiet)
<1>1. "failed" \notin Out /\ s \notin Out /\ c \in Served
  BY DEF Out, Waits, Served
<1>2. step' = [step EXCEPT ![c] = "failed"] \/ step' = [step EXCEPT ![c] = s]
  BY DEF Send, Advance
<1>3. Served' = Served \cup {c} /\ (Quiet' => Quiet)
  <2>1. CASE step' = [step EXCEPT ![c] = "failed"]
    BY <1>1, <2>1, StepKeeps
  <2>2. CASE step' = [step EXCEPT ![c] = s]
    BY <1>1, <2>2, StepKeeps
  <2> QED
    BY <1>2, <2>1, <2>2
<1> QED
  BY <1>1, <1>3

LEMMA GreetKeeps ==
  ASSUME SessionAssumption, NEW e, NEW M, Nothing \notin M, Replies \subseteq M, SessionsOf(e, M), NEW c \in Conns,
         NEW g \in {"none", "read"}, NEW s \in {"announce", "snapshot"}, SendManifest(c, g, s)
  PROVE  Kept(e, M) /\ heard' = heard
<1>1. /\ step[c] = "manifest" /\ writing[c] = Nothing /\ s \in Waits /\ g \in {"none", "read", "write"}
      /\ Send(c, Message("manifest"), g, s) /\ inbox' = inbox /\ UNCHANGED <<channelVars, clientVars>>
  BY DEF SendManifest, At, Waits
<1>2. Message("manifest") \in M /\ ~ Snap(Message("manifest"))
  BY DEF Replies, Snap, Message
<1>3. Ahead(e, heard[c], outbox[c], Nothing, Message("manifest"))
  BY <1>2 DEF Ahead, Before
<1>4. SessionsOf(e, M)'
  BY <1>1, <1>2, <1>3, SessionsSend
<1>5. Served' = Served /\ (Quiet' => Quiet)
  BY <1>1, SendKeeps DEF SessionsOf, Out
<1> QED
  BY <1>1, <1>4, <1>5 DEF Kept, channelVars, clientVars

LEMMA ShowKeeps ==
  ASSUME SessionAssumption, NEW e, NEW M, Nothing \notin M, SessionsOf(e, M), NEW c \in Conns,
         NEW v, Snapshot(v) \in M, MayAir(e, Snapshot(v)), NEW g \in {"none", "read"}, SendSnapshot(c, v, g)
  PROVE  Kept(e, M) /\ heard' = heard
<1>1. /\ step[c] = "snapshot" /\ writing[c] = Nothing /\ "subscribe" \in Waits /\ g \in {"none", "read", "write"}
      /\ Send(c, Snapshot(v), g, "subscribe") /\ inbox' = inbox /\ UNCHANGED <<channelVars, clientVars>>
  BY DEF SendSnapshot, At, Waits
<1>2. Ahead(e, heard[c], outbox[c], Nothing, Snapshot(v))
  BY <1>1 DEF MayAir
<1>3. SessionsOf(e, M)'
  BY <1>1, <1>2, SessionsSend
<1>4. Served' = Served /\ (Quiet' => Quiet)
  BY <1>1, SendKeeps DEF SessionsOf, Out
<1> QED
  BY <1>1, <1>3, <1>4 DEF Kept, channelVars, clientVars

LEMMA AnswerKeeps ==
  ASSUME SessionAssumption, NEW e, NEW M, Nothing \notin M, Replies \subseteq M, SessionsOf(e, M), NEW c \in Conns,
         NEW r, NEW m \in M, ~ Snap(m), NEW g \in {"none", "read", "write"}, Answer(c, r, m, g)
  PROVE  Kept(e, M) /\ heard' = heard
<1>1. /\ step[c] = "loop" /\ writing[c] = Nothing /\ "loop" \in Waits
      /\ Send(c, m, g, "loop") /\ inbox[c] # <<>> /\ inbox' = [inbox EXCEPT ![c] = Tail(@)]
      /\ UNCHANGED <<channelVars, clientVars>>
  BY DEF Answer, Takes, At, Waits
<1>2. Ahead(e, heard[c], outbox[c], Nothing, m)
  BY DEF Ahead, Before
<1>3. SessionsOf(e, M)'
  BY <1>1, <1>2, SessionsSend
<1>4. Served' = Served /\ (Quiet' => Quiet)
  BY <1>1, SendKeeps DEF SessionsOf, Out
<1> QED
  BY <1>1, <1>3, <1>4 DEF Kept, channelVars, clientVars

LEMMA SharedKeeps ==
  ASSUME SessionAssumption, NEW e, NEW M, Nothing \notin M, SessionsOf(e, M), NEW c \in Conns, Shared(c)
  PROVE  Kept(e, M) /\ heard' = heard
<1>1. Shapes(M)
  BY DEF SessionsOf
<1>2. UNCHANGED <<aired, requested, heard>>
  BY DEF Shared, Flush, Subscribe, Relay, HangUp, ClientCloses, channelVars, clientVars
<1>3. CASE Flush(c)
  <2>1. SessionsOf(e, M)'
    BY <1>3, SessionsFlush
  <2>2. step[c] \in Waits
    BY <1>3, Unchanged DEF Flush, Connection
  <2>3. step' = [step EXCEPT ![c] = "failed"] \/ step' = [step EXCEPT ![c] = step[c]]
    BY <1>3, Same DEF Flush, Advance
  <2>4. c \in Served /\ step[c] # "posted" /\ "failed" \notin Out /\ step[c] \notin Out
    BY <2>2 DEF Waits, Served, Out
  <2>5. Served' = Served \cup {c} /\ (Quiet' => Quiet)
    <3>1. CASE step' = [step EXCEPT ![c] = "failed"]
      BY <1>1, <2>4, <3>1, StepKeeps
    <3>2. CASE step' = [step EXCEPT ![c] = step[c]]
      BY <1>1, <2>4, <3>2, StepKeeps
    <3> QED
      BY <2>3, <3>1, <3>2
  <2> QED
    BY <1>2, <2>1, <2>4, <2>5 DEF Kept
<1>4. CASE Subscribe(c)
  <2>1. SessionsOf(e, M)'
    BY <1>4, SessionsSubscribe
  <2>2. step[c] = "subscribe" /\ step' = [step EXCEPT ![c] = "loop"]
    BY <1>4 DEF Subscribe, At, Advance
  <2>3. c \in Served /\ "loop" \notin Out
    BY <2>2 DEF Served, Out
  <2>4. Served' = Served \cup {c} /\ (Quiet' => Quiet)
    BY <1>1, <2>2, <2>3, StepKeeps
  <2> QED
    BY <1>2, <2>1, <2>3, <2>4 DEF Kept
<1>5. CASE Relay(c)
  <2>1. SessionsOf(e, M)'
    BY <1>5, SessionsRelay
  <2>2. /\ step[c] = "loop" /\ step[c] \notin Out
        /\ step' = step \/ Send(c, aired[Len(aired) - behind[c] + 1], "none", "loop")
    BY <1>5 DEF Relay, At, handlerVars, Out
  <2>3. "loop" \in Waits
    BY DEF Waits
  <2>4. CASE step' = step
    <3>1. Served' = Served /\ (Quiet' => Quiet)
      BY <2>4 DEF Served, Quiet
    <3> QED
      BY <1>2, <2>1, <3>1 DEF Kept
  <2>5. CASE Send(c, aired[Len(aired) - behind[c] + 1], "none", "loop")
    <3>1. Served' = Served /\ (Quiet' => Quiet)
      BY <1>1, <2>2, <2>3, <2>5, SendKeeps
    <3> QED
      BY <1>2, <2>1, <3>1 DEF Kept
  <2> QED
    BY <2>2, <2>4, <2>5
<1>6. CASE HangUp(c)
  <2>1. /\ step[c] = "loop" /\ writing[c] = Nothing /\ step' = [step EXCEPT ![c] = "leaving"]
        /\ client[c] \in {"closed", "refused"} /\ UNCHANGED <<writing, holds, inbox, outbox, channelVars, client, heard>>
    BY <1>6 DEF HangUp, At, Gone, Advance, clientVars
  <2>2. /\ inbox' = [inbox EXCEPT ![c] = inbox[c]] /\ client' = [client EXCEPT ![c] = client[c]]
        /\ inbox[c] \in Seq(Asks) /\ Len(inbox[c]) <= Buffer /\ client[c] \in ClientSteps
    BY <2>1, Same, Unchanged DEF Typed
  <2>3. "leaving" \in Steps /\ "leaving" \notin Out /\ c \in Served
    BY <2>1 DEF Steps, Out, Served
  <2>4. SessionsOf(e, M)'
    BY <2>1, <2>2, <2>3, SessionsChange
  <2>5. Served' = Served \cup {c} /\ (Quiet' => Quiet)
    BY <1>1, <2>1, <2>3, StepKeeps
  <2> QED
    BY <1>2, <2>3, <2>4, <2>5 DEF Kept
<1>7. CASE ClientCloses(c)
  <2>1. SessionsOf(e, M)'
    BY <1>7, SessionsClose
  <2>2. Served' = Served /\ (Quiet' => Quiet)
    BY <1>7 DEF ClientCloses, handlerVars, Served, Quiet
  <2> QED
    BY <1>2, <2>1, <2>2 DEF Kept
<1> QED
  BY <1>2, <1>3, <1>4, <1>5, <1>6, <1>7 DEF Shared

LEMMA ReadKeeps ==
  ASSUME SessionAssumption, NEW e, NEW M, SessionsOf(e, M), NEW c \in Conns, ClientReads(c)
  PROVE  Kept(e, M)
<1>1. UNCHANGED <<step, aired, requested>>
  BY DEF ClientReads, handlerVars, channelVars
<1>2. Served' = Served /\ (Quiet' => Quiet)
  BY <1>1 DEF Served, Quiet
<1> QED
  BY <1>1, <1>2, SessionsRead DEF Kept

\* send_intent() but for what all clients have sent.
Requests(c, r) ==
  /\ client[c] = "ready"
  /\ IF Len(inbox[c]) < Buffer
       THEN /\ inbox' = [inbox EXCEPT ![c] = Append(@, r)]
            /\ UNCHANGED client
       ELSE /\ client' = [client EXCEPT ![c] = "sending"]
            /\ UNCHANGED inbox
  /\ UNCHANGED <<handlerVars, outbox, channelVars, heard>>

\* The client sends r, or waits to.
LEMMA AskKeeps ==
  ASSUME SessionAssumption, NEW e, NEW M, SessionsOf(e, M), NEW c \in Conns, NEW r \in Asks,
         client[c] \in {"ready", "sending"}, NEW cl \in {"ready", "sending"}, client' = [client EXCEPT ![c] = cl],
         inbox' = inbox \/ (Len(inbox[c]) < Buffer /\ inbox' = [inbox EXCEPT ![c] = Append(@, r)]),
         UNCHANGED <<handlerVars, outbox, channelVars, heard>>
  PROVE  SessionsOf(e, M)' /\ Served' = Served /\ (Quiet' => Quiet) /\ UNCHANGED <<aired, heard>>
<1>1. UNCHANGED <<step, writing, holds, outbox, aired, heard>>
  BY DEF handlerVars, channelVars
<1>2. Served' = Served /\ (Quiet' => Quiet)
  BY <1>1 DEF Served, Quiet
<1>3. step' = [step EXCEPT ![c] = step[c]] /\ step[c] \in Steps /\ inbox[c] \in Seq(Asks) /\ Len(inbox[c]) <= Buffer
  BY <1>1, Same, Unchanged DEF Typed
<1>4. \E i \in Seq(Asks) : Len(i) <= Buffer /\ inbox' = [inbox EXCEPT ![c] = i]
  <2>1. CASE inbox' = inbox
    BY <1>3, <2>1, Same
  <2>2. CASE Len(inbox[c]) < Buffer /\ inbox' = [inbox EXCEPT ![c] = Append(@, r)]
    <3>1. Append(inbox[c], r) \in Seq(Asks) /\ Len(Append(inbox[c], r)) = Len(inbox[c]) + 1 /\ Len(inbox[c]) \in Nat
      BY <1>3, AppendProperties
    <3>2. Len(Append(inbox[c], r)) <= Buffer
      BY <2>2, <3>1 DEF SessionAssumption
    <3> QED
      BY <2>2, <3>1, <3>2
  <2> QED
    BY <2>1, <2>2
<1>5. cl \in ClientSteps /\ cl # "none" /\ client[c] \notin {"closed", "refused"}
  BY DEF ClientSteps
<1>6. SessionsOf(e, M)'
  <2>1. PICK i \in Seq(Asks) : Len(i) <= Buffer /\ inbox' = [inbox EXCEPT ![c] = i]
    BY <1>4
  <2> QED
    BY <1>1, <1>3, <1>5, <2>1, SessionsChange
<1> QED
  BY <1>1, <1>2, <1>6

LEMMA RequestKeeps ==
  ASSUME SessionAssumption, NEW e, NEW M, SessionsOf(e, M), NEW c \in Conns, NEW r \in Asks,
         NEW most \in Nat, requested \in 0 .. most,
         ClientSent(c, r) \/ (requested < most /\ requested' = requested + 1 /\ Requests(c, r))
  PROVE  /\ SessionsOf(e, M)' /\ Served' = Served /\ (Quiet' => Quiet) /\ UNCHANGED <<aired, heard>>
         /\ requested' \in 0 .. most
<1>1. requested' \in 0 .. most
  BY DEF ClientSent
<1>2. CASE ClientSent(c, r)
  BY <1>1, <1>2, AskKeeps DEF ClientSent
<1>3. CASE Requests(c, r)
  <2>1. CASE Len(inbox[c]) < Buffer
    BY <1>1, <1>3, <2>1, AskKeeps, Same DEF Requests
  <2>2. CASE ~ (Len(inbox[c]) < Buffer)
    BY <1>1, <1>3, <2>2, AskKeeps DEF Requests
  <2> QED
    BY <2>1, <2>2
<1> QED
  BY <1>2, <1>3

\* The handler takes a request, or leaves them all.
LEMMA Takings ==
  ASSUME SessionAssumption, NEW e, NEW M, SessionsOf(e, M), NEW c \in Conns,
         \/ inbox' = inbox
         \/ inbox[c] # <<>> /\ inbox' = [inbox EXCEPT ![c] = Tail(@)]
  PROVE  \E i \in Seq(Asks) : Len(i) <= Buffer /\ inbox' = [inbox EXCEPT ![c] = i]
<1>1. inbox[c] \in Seq(Asks) /\ Len(inbox[c]) <= Buffer /\ Buffer \in Nat
  BY Unchanged DEF Typed, SessionAssumption
<1>2. CASE inbox' = inbox
  BY <1>1, <1>2, Same
<1>3. CASE inbox[c] # <<>> /\ inbox' = [inbox EXCEPT ![c] = Tail(@)]
  <2>1. Tail(inbox[c]) \in Seq(Asks) /\ Len(Tail(inbox[c])) = Len(inbox[c]) - 1 /\ Len(inbox[c]) \in Nat
    BY <1>1, <1>3, HeadTailProperties
  <2>2. Len(Tail(inbox[c])) <= Buffer
    BY <1>1, <2>1
  <2> QED
    BY <1>3, <2>1, <2>2
<1> QED
  BY <1>2, <1>3

\* Connection::connect(), but for how many there were.
Connects(c) ==
  /\ client[c] = "none"
  /\ client' = [client EXCEPT ![c] = "manifest"]
  /\ Advance(c, "manifest")
  /\ UNCHANGED <<writing, holds, inbox, outbox, channelVars, heard, requested>>

LEMMA JoinKeeps ==
  ASSUME SessionAssumption, NEW e, NEW M, SessionsOf(e, M), NEW c \in Conns, Connects(c)
  PROVE  /\ SessionsOf(e, M)' /\ Served' = Served \cup {c} /\ (Quiet' => Quiet)
         /\ UNCHANGED <<aired, heard, requested>>
<1>1. /\ client[c] = "none" /\ client' = [client EXCEPT ![c] = "manifest"] /\ step' = [step EXCEPT ![c] = "manifest"]
      /\ UNCHANGED <<writing, holds, inbox, outbox, channelVars, heard, requested>>
  BY DEF Connects, Advance
<1>2. step[c] = "away" /\ writing[c] = Nothing
  BY <1>1, Unchanged DEF Connection, Waits
<1>3. inbox' = [inbox EXCEPT ![c] = inbox[c]] /\ inbox[c] \in Seq(Asks) /\ Len(inbox[c]) <= Buffer
  BY <1>1, Same, Unchanged DEF Typed
<1>4. "manifest" \in Steps /\ "manifest" \in ClientSteps /\ "manifest" \notin Out
  BY DEF Steps, ClientSteps, Out
<1>5. SessionsOf(e, M)'
  BY <1>1, <1>2, <1>3, <1>4, SessionsChange
<1>6. Served' = Served \cup {c} /\ (Quiet' => Quiet)
  BY <1>1, <1>2, <1>4, StepKeeps DEF SessionsOf
<1> QED
  BY <1>1, <1>5, <1>6 DEF channelVars

\* The handler goes on, and may have taken a request.
LEMMA GoesOn ==
  ASSUME SessionAssumption, NEW e, NEW M, SessionsOf(e, M), NEW c \in Conns, step[c] # "away", writing[c] = Nothing,
         NEW s \in Steps, step' = [step EXCEPT ![c] = s], s \in {"loop", "posted"} => step[c] = "loop",
         \/ inbox' = inbox
         \/ inbox[c] # <<>> /\ inbox' = [inbox EXCEPT ![c] = Tail(@)],
         UNCHANGED <<writing, holds, outbox, channelVars, clientVars>>
  PROVE  SessionsOf(e, M)'
<1>1. client[c] # "none" /\ (client[c] \notin {"closed", "refused"} => client[c] \notin {"closed", "refused"})
  BY Unchanged DEF Connection
<1>2. UNCHANGED <<client, heard>>
  BY DEF clientVars
<1>3. client' = [client EXCEPT ![c] = client[c]] /\ client[c] \in ClientSteps
  BY <1>2, Same, Unchanged DEF Typed
<1>4. \E i \in Seq(Asks) : Len(i) <= Buffer /\ inbox' = [inbox EXCEPT ![c] = i]
  BY Takings
<1>5. PICK i \in Seq(Asks) : Len(i) <= Buffer /\ inbox' = [inbox EXCEPT ![c] = i]
  BY <1>4
<1> QED
  BY <1>1, <1>2, <1>3, <1>5, SessionsChange

\* The same, and m is broadcast.
LEMMA AirsAndGoesOn ==
  ASSUME SessionAssumption, NEW e, NEW M, SessionsOf(e, M), NEW c \in Conns, step[c] # "away", writing[c] = Nothing,
         NEW m \in M, Air(m), MayAir(e, m),
         NEW s \in Steps, step' = [step EXCEPT ![c] = s], s = "loop" => step[c] \in {"loop", "posted"}, s # "posted",
         \/ inbox' = inbox
         \/ inbox[c] # <<>> /\ inbox' = [inbox EXCEPT ![c] = Tail(@)],
         UNCHANGED <<writing, holds, outbox, clientVars>>
  PROVE  /\ SessionsOf(e, M)'
         /\ Snap(m) => AiredLast(aired', m)
         /\ ~ Snap(m) => \A x : AiredLast(aired, x) => AiredLast(aired', x)
<1>1. client[c] # "none"
  BY Unchanged DEF Connection
<1>2. UNCHANGED <<client, heard>>
  BY DEF clientVars
<1>3. \E i \in Seq(Asks) : Len(i) <= Buffer /\ inbox' = [inbox EXCEPT ![c] = i]
  BY Takings
<1>4. PICK i \in Seq(Asks) : Len(i) <= Buffer /\ inbox' = [inbox EXCEPT ![c] = i]
  BY <1>3
<1>5. SessionsOf(e, M)' /\ aired' = Aired(aired, m)
  BY <1>1, <1>2, <1>4, SessionsAir
<1>6. Capacity \in Nat \ {0} /\ aired \in Seq(M) /\ Len(aired) <= Capacity
  BY DEF SessionAssumption, SessionsOf, Channel
<1> QED
  BY <1>5, <1>6, AiredLastAirs

-----------------------------------------------------------------------------
(* Chat *)

\* What Chat has of Sessions is what Rooms has.
LEMMA ChatHas ==
  ASSUME NEW c, NEW m, NEW g, NEW s, NEW r
  PROVE  /\ C!Shared(c) => Shared(c)
         /\ C!Connect(c) => Connects(c)
         /\ C!SendManifest(c, g, s) => SendManifest(c, g, s)
         /\ C!SendSnapshot(c, m, g) => SendSnapshot(c, m, g)
         /\ C!Answer(c, r, m, g) => Answer(c, r, m, g)
         /\ C!Takes(c, r) => Takes(c, r)
         /\ C!Air(m) => Air(m)
         /\ C!ClientReads(c) => ClientReads(c)
         /\ C!ClientRequests(c, r) => requested < MaxRequests /\ requested' = requested + 1 /\ Requests(c, r)
         /\ C!ClientSent(c, r) => ClientSent(c, r)
         /\ C!At(c, s) => At(c, s)
         /\ C!Advance(c, s) => Advance(c, s)
         /\ C!Message(s) = Message(s) /\ C!Snapshot(m) = Snapshot(m)
         /\ C!channelVars = channelVars /\ C!clientVars = clientVars /\ C!handlerVars = handlerVars
<1> USE DEF C!Message, Message, C!Snapshot, Snapshot, C!Nothing, Nothing, C!handlerVars, handlerVars,
       C!channelVars, channelVars, C!clientVars, clientVars, C!At, At, C!Advance, Advance,
       C!Gone, Gone, C!CanRead, CanRead, C!CanWrite, CanWrite
<1>1. C!Send(c, m, g, s) => Send(c, m, g, s)
  BY DEF C!Send, Send
<1>2. C!Flush(c) => Flush(c)
  BY DEF C!Flush, Flush
<1>3. C!Subscribe(c) => Subscribe(c)
  BY DEF C!Subscribe, Subscribe
<1>4. C!Relay(c) => Relay(c)
  BY DEF C!Relay, Relay, C!Send, Send
<1>5. (C!HangUp(c) => HangUp(c)) /\ (C!ClientCloses(c) => ClientCloses(c))
  BY DEF C!HangUp, HangUp, C!ClientCloses, ClientCloses
<1>6. C!Shared(c) => Shared(c)
  BY <1>2, <1>3, <1>4, <1>5 DEF C!Shared, Shared
<1>7. C!Connect(c) => Connects(c)
  BY DEF C!Connect, Connects
<1>8. C!SendManifest(c, g, s) => SendManifest(c, g, s)
  BY DEF C!SendManifest, SendManifest, C!Send, Send
<1>9. C!SendSnapshot(c, m, g) => SendSnapshot(c, m, g)
  BY DEF C!SendSnapshot, SendSnapshot, C!Send, Send
<1>10. C!Takes(c, r) => Takes(c, r)
  BY DEF C!Takes, Takes
<1>11. C!Answer(c, r, m, g) => Answer(c, r, m, g)
  BY DEF C!Answer, Answer, C!Takes, Takes, C!Send, Send
<1>12. C!Air(m) => Air(m)
  BY DEF C!Air, Air, C!Receives, Receives, C!Lower, Lower
<1>13. C!ClientReads(c) => ClientReads(c)
  BY DEF C!ClientReads, ClientReads, C!ClientAfter, ClientAfter
<1>14. C!ClientRequests(c, r) => requested < MaxRequests /\ requested' = requested + 1 /\ Requests(c, r)
  BY DEF C!ClientRequests, Requests
<1>15. C!ClientSent(c, r) => ClientSent(c, r)
  BY DEF C!ClientSent, ClientSent
<1> QED
  BY <1>6, <1>7, <1>8, <1>9, <1>10, <1>11, <1>12, <1>13, <1>14, <1>15

LEMMA ChatHolds ==
  ASSUME NEW M, M = Wired("chat", said'), example' = "chat", SessionsOf("chat", M)', said' \in Nat,
         messages' = Window(said', Keep), requested' \in 0 .. MaxRequests, users' = Served',
         AiredLast(aired', Snapshot(ViewOf("chat", said', TRUE)))
  PROVE  ChatInv'
<1>1. Newest' = said'
  BY DEF Newest
<1>2. SessionsInv'
  BY <1>1 DEF SessionsInv, SessionsOf, Shapes, ConnectionOf
<1> QED
  BY <1>2 DEF ChatInv

LEMMA ChatStarts ==
  ASSUME SessionAssumption, ExampleAssumption, example = "chat", C!Init
  PROVE  ChatInv
<1>1. SessionsOf("chat", Wired("chat", 0)) /\ aired = <<>> /\ requested = 0 /\ step = [c \in Conns |-> "away"]
  BY SessionsStart DEF C!Init, C!SessionInit, SessionInit, C!Nothing, C!Message, Nothing, Message
<1>2. said = 0 /\ messages = <<>> /\ users = {}
  BY DEF C!Init
<1>3. messages = Window(said, Keep)
  BY <1>2, WindowIs DEF ExampleAssumption
<1>4. Served = {}
  BY <1>1 DEF Served, Out
<1>5. AiredLast(aired, Snapshot(ViewOf("chat", said, TRUE)))
  BY <1>1 DEF AiredLast
<1>6. requested \in 0 .. MaxRequests
  BY <1>1 DEF SessionAssumption
<1> QED
  BY <1>1, <1>2, <1>3, <1>4, <1>5, <1>6 DEF ChatInv, SessionsInv, Newest

LEMMA ChatSteps ==
  ASSUME SessionAssumption, ExampleAssumption, ChatInv, example = "chat", example' = "chat", C!Next
  PROVE  ChatInv'
<1> DEFINE Now == Snapshot(ViewOf("chat", said, TRUE))
<1>1. /\ SessionsOf("chat", Wired("chat", said)) /\ said \in Nat /\ messages = Window(said, Keep)
      /\ requested \in 0 .. MaxRequests /\ users = Served /\ AiredLast(aired, Now)
  BY DEF ChatInv, SessionsInv, Newest
<1>2. said' = said \/ said' = said + 1
  BY DEF C!Next, C!chatVars, C!Joins, C!Greets, C!AnnouncesJoin, C!Shows, C!HandleIntent, C!HandleTransfer,
         C!HandlePing, C!Leaves, C!AnnouncesLeave
<1>3. said' \in Nat /\ said <= said'
  BY <1>1, <1>2
<1> SUFFICES ASSUME NEW M, M = Wired("chat", said') PROVE ChatInv'
  OBVIOUS
<1>4. /\ Nothing \notin M /\ Replies \subseteq M /\ \A x \in Replies : ~ Snap(x)
      /\ \A t \in 0 .. said' : Snapshot(ViewOf("chat", t, TRUE)) \in M
  BY <1>3, WiredIs DEF Programs
<1>5. SessionsOf("chat", M)
  BY <1>1, <1>3, WiredWider, SessionsWider
<1>6. MayAir("chat", Now) /\ MayAir("chat", Snapshot(ViewOf("chat", said + 1, TRUE)))
  <2>1. said + 1 \in Nat /\ said <= said /\ said <= said + 1 /\ "chat" \in Programs
    BY <1>1 DEF Programs
  <2> QED
    BY <1>1, <2>1, NewestMayAir
<1>7. Now \in M /\ C!View(messages) = ViewOf("chat", said, TRUE)
  <2>1. said \in 0 .. said'
    BY <1>1, <1>3
  <2>2. C!View(messages) = ViewOf("chat", said, TRUE)
    BY <1>1, ChatShows
  <2> QED
    BY <1>4, <2>1, <2>2
<1> HIDE DEF Now
<1>8. ASSUME Kept("chat", M) \/ (SessionsOf("chat", M)' /\ Served' = Served /\ UNCHANGED aired),
             requested' \in 0 .. MaxRequests, UNCHANGED <<said, messages, users>>
      PROVE  ChatInv'
  BY <1>1, <1>8, ChatHolds DEF Kept, Now
<1>9. ASSUME Kept("chat", M), UNCHANGED <<said, messages, users>>
      PROVE  ChatInv'
  BY <1>1, <1>8, <1>9 DEF Kept
<1>10. PICK c \in Conns :
         \/ C!Shared(c) /\ UNCHANGED C!chatVars
         \/ C!Joins(c)
         \/ C!Greets(c)
         \/ C!AnnouncesJoin(c)
         \/ C!Shows(c)
         \/ C!HandleIntent(c)
         \/ C!HandleTransfer(c)
         \/ C!HandlePing(c)
         \/ C!Leaves(c)
         \/ C!AnnouncesLeave(c)
         \/ C!ClientReads(c) /\ UNCHANGED C!chatVars
         \/ \E r \in C!Requests : (C!ClientRequests(c, r) \/ C!ClientSent(c, r)) /\ UNCHANGED C!chatVars
  BY DEF C!Next
<1>11. CASE C!Shared(c) /\ UNCHANGED C!chatVars
  BY <1>4, <1>5, <1>9, <1>11, ChatHas, SharedKeeps DEF C!chatVars
<1>12. CASE C!Joins(c)
  <2>1. Connects(c) /\ users' = users \cup {c} /\ UNCHANGED <<said, messages>>
    BY <1>12, ChatHas DEF C!Joins
  <2>2. SessionsOf("chat", M)' /\ Served' = Served \cup {c} /\ UNCHANGED <<aired, requested>>
    BY <1>5, <2>1, JoinKeeps
  <2> QED
    BY <1>1, <2>1, <2>2, ChatHolds DEF Now
<1>13. CASE C!Greets(c)
  <2>1. SendManifest(c, "read", "announce") /\ UNCHANGED <<said, messages, users>>
    BY <1>13, ChatHas DEF C!Greets, C!chatVars
  <2> QED
    BY <1>4, <1>5, <1>9, <2>1, GreetKeeps
<1>14. CASE C!AnnouncesJoin(c)
  <2>1. /\ At(c, "announce") /\ Air(Message("system")) /\ Advance(c, "snapshot")
        /\ UNCHANGED <<writing, holds, inbox, outbox, clientVars, said, messages, users>>
    BY <1>14, ChatHas DEF C!AnnouncesJoin, C!chatVars, C!clientVars, clientVars
  <2>2. Message("system") \in M /\ ~ Snap(Message("system")) /\ MayAir("chat", Message("system"))
    BY <1>4, RepliesMayAir DEF Replies
  <2>3. /\ step[c] # "away" /\ writing[c] = Nothing /\ step' = [step EXCEPT ![c] = "snapshot"] /\ "snapshot" \in Steps
        /\ c \in Served /\ "snapshot" \notin Out
    BY <2>1 DEF At, Advance, Steps, Served, Out
  <2>4. SessionsOf("chat", M)' /\ \A x : AiredLast(aired, x) => AiredLast(aired', x)
    BY <1>5, <2>1, <2>2, <2>3, AirsAndGoesOn
  <2>5. Served' = Served \cup {c}
    BY <1>5, <2>3, StepKeeps DEF SessionsOf
  <2>6. Served' = Served
    BY <2>3, <2>5
  <2> QED
    BY <1>1, <2>1, <2>4, <2>6, ChatHolds DEF Now, clientVars
<1>15. CASE C!Shows(c)
  <2>1. SendSnapshot(c, ViewOf("chat", said, TRUE), "read") /\ UNCHANGED <<said, messages, users>>
    BY <1>7, <1>15, ChatHas DEF C!Shows, C!chatVars
  <2> QED
    BY <1>4, <1>5, <1>6, <1>7, <1>9, <2>1, ShowKeeps DEF Now
<1>16. CASE C!HandleIntent(c)
  <2>1. /\ Takes(c, "intent") /\ said' = said + 1 /\ messages' = C!AddMessage(messages, said + 1)
        /\ Air(Snapshot(C!View(messages'))) /\ UNCHANGED <<handlerVars, outbox, clientVars, users>>
    BY <1>16, ChatHas DEF C!HandleIntent, C!clientVars, clientVars, C!handlerVars, handlerVars
  <2>2. messages' = Window(said + 1, Keep) /\ C!View(messages') = ViewOf("chat", said + 1, TRUE)
    <3>1. messages' = Window(said + 1, Keep)
      BY <1>1, <2>1, ChatAdds
    <3>2. said + 1 \in Nat
      BY <1>1
    <3> QED
      BY <3>1, <3>2, ChatShows
  <2> DEFINE m == Snapshot(ViewOf("chat", said + 1, TRUE))
  <2>3. m \in M /\ Air(m) /\ MayAir("chat", m) /\ Snap(m)
    <3>1. said + 1 \in 0 .. said'
      BY <1>1, <2>1
    <3>2. m \in M /\ MayAir("chat", m)
      BY <1>4, <1>6, <3>1
    <3>3. Air(m)
      BY <2>1, <2>2
    <3> QED
      BY <3>2, <3>3 DEF Snap, Snapshot
  <2>4. /\ step[c] = "loop" /\ writing[c] = Nothing /\ "loop" \in Steps
        /\ inbox[c] # <<>> /\ inbox' = [inbox EXCEPT ![c] = Tail(@)]
        /\ UNCHANGED <<step, writing, holds, outbox, clientVars>>
    BY <2>1 DEF Takes, At, handlerVars, Steps
  <2>5. step' = [step EXCEPT ![c] = "loop"]
    BY <1>5, <2>4, Same
  <2> HIDE DEF m
  <2>6. SessionsOf("chat", M)' /\ AiredLast(aired', m)
    BY <1>5, <2>3, <2>4, <2>5, AirsAndGoesOn
  <2>7. Served' = Served
    BY <2>4 DEF Served
  <2> QED
    BY <1>1, <1>3, <2>1, <2>2, <2>6, <2>7, ChatHolds DEF m, clientVars
<1>17. CASE C!HandleTransfer(c)
  <2>1. PICK kind \in {"transfer", "error"} : C!Answer(c, "transfer", C!Message(kind), "read")
    BY <1>17 DEF C!HandleTransfer
  <2>2. Answer(c, "transfer", Message(kind), "read") /\ UNCHANGED <<said, messages, users>>
    BY <1>17, <2>1, ChatHas DEF C!HandleTransfer, C!chatVars
  <2>3. Message(kind) \in M /\ ~ Snap(Message(kind))
    BY <1>4 DEF Replies
  <2> QED
    BY <1>4, <1>5, <1>9, <2>2, <2>3, AnswerKeeps
<1>18. CASE C!HandlePing(c)
  <2>1. Answer(c, "ping", Message("pong"), "none") /\ UNCHANGED <<said, messages, users>>
    BY <1>18, ChatHas DEF C!HandlePing, C!chatVars
  <2>2. Message("pong") \in M /\ ~ Snap(Message("pong"))
    BY <1>4 DEF Replies
  <2> QED
    BY <1>4, <1>5, <1>9, <2>1, <2>2, AnswerKeeps
<1>19. CASE C!Leaves(c)
  <2>1. /\ At(c, "leaving") /\ Advance(c, "left") /\ users' = users \ {c}
        /\ UNCHANGED <<writing, holds, inbox, outbox, channelVars, clientVars, said, messages>>
    BY <1>19, ChatHas DEF C!Leaves, C!clientVars, clientVars, C!channelVars, channelVars
  <2>2. /\ step[c] = "leaving" /\ writing[c] = Nothing /\ step' = [step EXCEPT ![c] = "left"] /\ "left" \in Steps
        /\ "left" \in Out
    BY <2>1 DEF At, Advance, Steps, Out
  <2>3. SessionsOf("chat", M)'
    BY <1>5, <2>1, <2>2, GoesOn
  <2>4. Served' = Served \ {c}
    BY <1>5, <2>2, StepKeeps DEF SessionsOf
  <2> QED
    BY <1>1, <2>1, <2>3, <2>4, ChatHolds DEF Now, clientVars, channelVars
<1>20. CASE C!AnnouncesLeave(c)
  <2>1. /\ At(c, "left") /\ Air(Message("system")) /\ Advance(c, "gone")
        /\ UNCHANGED <<writing, holds, inbox, outbox, clientVars, said, messages, users>>
    BY <1>20, ChatHas DEF C!AnnouncesLeave, C!chatVars, C!clientVars, clientVars
  <2>2. Message("system") \in M /\ ~ Snap(Message("system")) /\ MayAir("chat", Message("system"))
    BY <1>4, RepliesMayAir DEF Replies
  <2>3. /\ step[c] # "away" /\ writing[c] = Nothing /\ step' = [step EXCEPT ![c] = "gone"] /\ "gone" \in Steps
        /\ c \notin Served /\ "gone" \in Out
    BY <2>1 DEF At, Advance, Steps, Served, Out
  <2>4. SessionsOf("chat", M)' /\ \A x : AiredLast(aired, x) => AiredLast(aired', x)
    BY <1>5, <2>1, <2>2, <2>3, AirsAndGoesOn
  <2>5. Served' = Served \ {c}
    BY <1>5, <2>3, StepKeeps DEF SessionsOf
  <2>6. Served' = Served
    BY <2>3, <2>5
  <2> QED
    BY <1>1, <2>1, <2>4, <2>6, ChatHolds DEF Now, clientVars
<1>21. CASE C!ClientReads(c) /\ UNCHANGED C!chatVars
  BY <1>5, <1>9, <1>21, ChatHas, ReadKeeps DEF C!chatVars
<1>22. CASE \E r \in C!Requests : (C!ClientRequests(c, r) \/ C!ClientSent(c, r)) /\ UNCHANGED C!chatVars
  <2>1. PICK r \in C!Requests : C!ClientRequests(c, r) \/ C!ClientSent(c, r)
    BY <1>22
  <2>2. r \in Asks /\ MaxRequests \in Nat
    BY DEF C!Requests, Asks, SessionAssumption
  <2>3. ClientSent(c, r) \/ (requested < MaxRequests /\ requested' = requested + 1 /\ Requests(c, r))
    BY <2>1, ChatHas
  <2>4. SessionsOf("chat", M)' /\ Served' = Served /\ UNCHANGED aired /\ requested' \in 0 .. MaxRequests
    BY <1>1, <1>5, <2>2, <2>3, RequestKeeps
  <2> QED
    BY <1>8, <1>22, <2>4 DEF C!chatVars
<1> QED
  BY <1>10, <1>11, <1>12, <1>13, <1>14, <1>15, <1>16, <1>17, <1>18, <1>19, <1>20, <1>21, <1>22

-----------------------------------------------------------------------------
(* Webchat *)

\* What Webchat has of Sessions is what Rooms has.
LEMMA WebchatHas ==
  ASSUME NEW c, NEW m, NEW g, NEW s, NEW r
  PROVE  /\ W!Shared(c) => Shared(c)
         /\ W!Connect(c) => Connects(c)
         /\ W!SendManifest(c, g, s) => SendManifest(c, g, s)
         /\ W!SendSnapshot(c, m, g) => SendSnapshot(c, m, g)
         /\ W!Answer(c, r, m, g) => Answer(c, r, m, g)
         /\ W!Takes(c, r) => Takes(c, r)
         /\ W!Air(m) => Air(m)
         /\ W!ClientReads(c) => ClientReads(c)
         /\ W!ClientRequests(c, r) => requested < MaxRequests /\ requested' = requested + 1 /\ Requests(c, r)
         /\ W!ClientSent(c, r) => ClientSent(c, r)
         /\ W!At(c, s) => At(c, s)
         /\ W!Advance(c, s) => Advance(c, s)
         /\ W!Message(s) = Message(s) /\ W!Snapshot(m) = Snapshot(m)
         /\ W!channelVars = channelVars /\ W!clientVars = clientVars /\ W!handlerVars = handlerVars
<1> USE DEF W!Message, Message, W!Snapshot, Snapshot, W!Nothing, Nothing, W!handlerVars, handlerVars,
       W!channelVars, channelVars, W!clientVars, clientVars, W!At, At, W!Advance, Advance,
       W!Gone, Gone, W!CanRead, CanRead, W!CanWrite, CanWrite
<1>1. W!Send(c, m, g, s) => Send(c, m, g, s)
  BY DEF W!Send, Send
<1>2. W!Flush(c) => Flush(c)
  BY DEF W!Flush, Flush
<1>3. W!Subscribe(c) => Subscribe(c)
  BY DEF W!Subscribe, Subscribe
<1>4. W!Relay(c) => Relay(c)
  BY DEF W!Relay, Relay, W!Send, Send
<1>5. (W!HangUp(c) => HangUp(c)) /\ (W!ClientCloses(c) => ClientCloses(c))
  BY DEF W!HangUp, HangUp, W!ClientCloses, ClientCloses
<1>6. W!Shared(c) => Shared(c)
  BY <1>2, <1>3, <1>4, <1>5 DEF W!Shared, Shared
<1>7. W!Connect(c) => Connects(c)
  BY DEF W!Connect, Connects
<1>8. W!SendManifest(c, g, s) => SendManifest(c, g, s)
  BY DEF W!SendManifest, SendManifest, W!Send, Send
<1>9. W!SendSnapshot(c, m, g) => SendSnapshot(c, m, g)
  BY DEF W!SendSnapshot, SendSnapshot, W!Send, Send
<1>10. W!Takes(c, r) => Takes(c, r)
  BY DEF W!Takes, Takes
<1>11. W!Answer(c, r, m, g) => Answer(c, r, m, g)
  BY DEF W!Answer, Answer, W!Takes, Takes, W!Send, Send
<1>12. W!Air(m) => Air(m)
  BY DEF W!Air, Air, W!Receives, Receives, W!Lower, Lower
<1>13. W!ClientReads(c) => ClientReads(c)
  BY DEF W!ClientReads, ClientReads, W!ClientAfter, ClientAfter
<1>14. W!ClientRequests(c, r) => requested < MaxRequests /\ requested' = requested + 1 /\ Requests(c, r)
  BY DEF W!ClientRequests, Requests
<1>15. W!ClientSent(c, r) => ClientSent(c, r)
  BY DEF W!ClientSent, ClientSent
<1> QED
  BY <1>6, <1>7, <1>8, <1>9, <1>10, <1>11, <1>12, <1>13, <1>14, <1>15

LEMMA WebchatHolds ==
  ASSUME NEW M, M = Wired("webchat", said'), example' = "webchat", SessionsOf("webchat", M)', said' \in Nat,
         messages' = Window(said', Keep), requested' \in 0 .. MaxRequests,
         Quiet' => AiredLast(aired', Snapshot(ViewOf("webchat", said', TRUE)))
  PROVE  WebchatInv'
<1>1. Newest' = said'
  BY DEF Newest
<1>2. SessionsInv'
  BY <1>1 DEF SessionsInv, SessionsOf, Shapes, ConnectionOf
<1> QED
  BY <1>2 DEF WebchatInv

LEMMA WebchatStarts ==
  ASSUME SessionAssumption, ExampleAssumption, example = "webchat", W!Init
  PROVE  WebchatInv
<1>1. SessionsOf("webchat", Wired("webchat", 0)) /\ aired = <<>> /\ requested = 0
  BY SessionsStart DEF W!Init, W!SessionInit, SessionInit, W!Nothing, W!Message, Nothing, Message
<1>2. said = 0 /\ messages = <<>>
  BY DEF W!Init
<1>3. messages = Window(said, Keep)
  BY <1>2, WindowIs DEF ExampleAssumption
<1>4. AiredLast(aired, Snapshot(ViewOf("webchat", said, TRUE)))
  BY <1>1 DEF AiredLast
<1>5. requested \in 0 .. MaxRequests
  BY <1>1 DEF SessionAssumption
<1> QED
  BY <1>1, <1>2, <1>3, <1>4, <1>5 DEF WebchatInv, SessionsInv, Newest

LEMMA WebchatSteps ==
  ASSUME SessionAssumption, ExampleAssumption, WebchatInv, example = "webchat", example' = "webchat", W!Next
  PROVE  WebchatInv'
<1> DEFINE Now == Snapshot(ViewOf("webchat", said, TRUE))
<1>1. /\ SessionsOf("webchat", Wired("webchat", said)) /\ said \in Nat /\ messages = Window(said, Keep)
      /\ requested \in 0 .. MaxRequests /\ (Quiet => AiredLast(aired, Now))
  BY DEF WebchatInv, SessionsInv, Newest
<1>2. said' = said \/ said' = said + 1
  BY DEF W!Next, W!webchatVars, W!Joins, W!Greets, W!Shows, W!AddMessage, W!BroadcastSnapshot, W!HandlePing, W!Leaves
<1>3. said' \in Nat /\ said <= said'
  BY <1>1, <1>2
<1> SUFFICES ASSUME NEW M, M = Wired("webchat", said') PROVE WebchatInv'
  OBVIOUS
<1>4. /\ Nothing \notin M /\ Replies \subseteq M /\ \A x \in Replies : ~ Snap(x)
      /\ \A t \in 0 .. said' : Snapshot(ViewOf("webchat", t, TRUE)) \in M
  BY <1>3, WiredIs DEF Programs
<1>5. SessionsOf("webchat", M)
  BY <1>1, <1>3, WiredWider, SessionsWider
<1>6. MayAir("webchat", Now) /\ Snap(Now)
  <2>1. said <= said /\ "webchat" \in Programs
    BY <1>1 DEF Programs
  <2> QED
    BY <1>1, <2>1, NewestMayAir DEF Snap, Snapshot
<1>7. Now \in M /\ W!View(messages) = ViewOf("webchat", said, TRUE)
  <2>1. said \in 0 .. said'
    BY <1>1, <1>3
  <2>2. W!View(messages) = ViewOf("webchat", said, TRUE)
    BY <1>1 DEF W!View, ViewOf
  <2> QED
    BY <1>4, <2>1, <2>2
<1> HIDE DEF Now
<1>8. ASSUME SessionsOf("webchat", M)', Quiet' => Quiet, UNCHANGED <<aired, said, messages>>,
             requested' \in 0 .. MaxRequests
      PROVE  WebchatInv'
  BY <1>1, <1>8, WebchatHolds DEF Now
<1>9. ASSUME Kept("webchat", M), UNCHANGED <<said, messages>>
      PROVE  WebchatInv'
  BY <1>1, <1>8, <1>9 DEF Kept
<1>10. PICK c \in Conns :
         \/ W!Shared(c) /\ UNCHANGED W!webchatVars
         \/ W!Joins(c)
         \/ W!Greets(c)
         \/ W!Shows(c)
         \/ W!AddMessage(c)
         \/ W!BroadcastSnapshot(c)
         \/ W!HandlePing(c)
         \/ W!Leaves(c)
         \/ W!ClientReads(c) /\ UNCHANGED W!webchatVars
         \/ \E r \in W!Requests : (W!ClientRequests(c, r) \/ W!ClientSent(c, r)) /\ UNCHANGED W!webchatVars
  BY DEF W!Next
<1>11. CASE W!Shared(c) /\ UNCHANGED W!webchatVars
  BY <1>4, <1>5, <1>9, <1>11, WebchatHas, SharedKeeps DEF W!webchatVars
<1>12. CASE W!Joins(c)
  <2>1. Connects(c) /\ UNCHANGED <<said, messages>>
    BY <1>12, WebchatHas DEF W!Joins, W!webchatVars
  <2>2. SessionsOf("webchat", M)' /\ (Quiet' => Quiet) /\ UNCHANGED <<aired, requested>>
    BY <1>5, <2>1, JoinKeeps
  <2> QED
    BY <1>1, <1>8, <2>1, <2>2
<1>13. CASE W!Greets(c)
  <2>1. SendManifest(c, "none", "snapshot") /\ UNCHANGED <<said, messages>>
    BY <1>13, WebchatHas DEF W!Greets, W!webchatVars
  <2> QED
    BY <1>4, <1>5, <1>9, <2>1, GreetKeeps
<1>14. CASE W!Shows(c)
  <2>1. SendSnapshot(c, ViewOf("webchat", said, TRUE), "none") /\ UNCHANGED <<said, messages>>
    BY <1>7, <1>14, WebchatHas DEF W!Shows, W!webchatVars
  <2> QED
    BY <1>4, <1>5, <1>6, <1>7, <1>9, <2>1, ShowKeeps DEF Now
<1>15. CASE W!AddMessage(c)
  <2>1. /\ Takes(c, "intent") /\ said' = said + 1
        /\ messages' = IF Len(messages) = Keep THEN Append(Tail(messages), said + 1) ELSE Append(messages, said + 1)
        /\ Advance(c, "posted") /\ UNCHANGED <<writing, holds, outbox, channelVars, clientVars>>
    BY <1>15, WebchatHas DEF W!AddMessage, W!clientVars, clientVars, W!channelVars, channelVars
  <2>2. messages' = Window(said', Keep)
    BY <1>1, <2>1, WindowAdds DEF ExampleAssumption
  <2>3. /\ step[c] = "loop" /\ writing[c] = Nothing /\ "posted" \in Steps /\ step' = [step EXCEPT ![c] = "posted"]
        /\ inbox[c] # <<>> /\ inbox' = [inbox EXCEPT ![c] = Tail(@)]
    BY <2>1 DEF Takes, At, Advance, Steps
  <2>4. SessionsOf("webchat", M)'
    BY <1>5, <2>1, <2>3, GoesOn
  <2>5. ~ Quiet'
    BY <1>5, <2>3 DEF Quiet, SessionsOf, Shapes
  <2> QED
    BY <1>1, <1>3, <2>1, <2>2, <2>4, <2>5, WebchatHolds DEF clientVars
<1>16. CASE W!BroadcastSnapshot(c)
  <2>1. /\ At(c, "posted") /\ Air(Snapshot(W!View(messages))) /\ Advance(c, "loop")
        /\ UNCHANGED <<writing, holds, inbox, outbox, clientVars, said, messages>>
    BY <1>16, WebchatHas DEF W!BroadcastSnapshot, W!webchatVars, W!clientVars, clientVars
  <2>2. step[c] = "posted" /\ writing[c] = Nothing /\ step' = [step EXCEPT ![c] = "loop"] /\ "loop" \in Steps
    BY <2>1 DEF At, Advance, Steps
  <2>3. Air(Now)
    BY <1>7, <2>1 DEF Now
  <2>4. SessionsOf("webchat", M)' /\ AiredLast(aired', Now)
    BY <1>5, <1>6, <1>7, <2>1, <2>2, <2>3, AirsAndGoesOn
  <2> QED
    BY <1>1, <2>1, <2>4, WebchatHolds DEF Now, clientVars
<1>17. CASE W!HandlePing(c)
  <2>1. Answer(c, "ping", Message("pong"), "none") /\ UNCHANGED <<said, messages>>
    BY <1>17, WebchatHas DEF W!HandlePing, W!webchatVars
  <2>2. Message("pong") \in M /\ ~ Snap(Message("pong"))
    BY <1>4 DEF Replies
  <2> QED
    BY <1>4, <1>5, <1>9, <2>1, <2>2, AnswerKeeps
<1>18. CASE W!Leaves(c)
  <2>1. /\ At(c, "leaving") /\ Advance(c, "gone")
        /\ UNCHANGED <<writing, holds, inbox, outbox, channelVars, clientVars, said, messages>>
    BY <1>18, WebchatHas DEF W!Leaves, W!webchatVars, W!clientVars, clientVars, W!channelVars, channelVars
  <2>2. step[c] = "leaving" /\ writing[c] = Nothing /\ step' = [step EXCEPT ![c] = "gone"] /\ "gone" \in Steps
    BY <2>1 DEF At, Advance, Steps
  <2>3. SessionsOf("webchat", M)'
    BY <1>5, <2>1, <2>2, GoesOn
  <2>4. Quiet' => Quiet
    BY <1>5, <2>2, StepKeeps DEF SessionsOf
  <2> QED
    BY <1>1, <1>8, <2>1, <2>3, <2>4 DEF clientVars, channelVars
<1>19. CASE W!ClientReads(c) /\ UNCHANGED W!webchatVars
  BY <1>5, <1>9, <1>19, WebchatHas, ReadKeeps DEF W!webchatVars
<1>20. CASE \E r \in W!Requests : (W!ClientRequests(c, r) \/ W!ClientSent(c, r)) /\ UNCHANGED W!webchatVars
  <2>1. PICK r \in W!Requests : W!ClientRequests(c, r) \/ W!ClientSent(c, r)
    BY <1>20
  <2>2. r \in Asks /\ MaxRequests \in Nat
    BY DEF W!Requests, Asks, SessionAssumption
  <2>3. ClientSent(c, r) \/ (requested < MaxRequests /\ requested' = requested + 1 /\ Requests(c, r))
    BY <2>1, WebchatHas
  <2>4. SessionsOf("webchat", M)' /\ (Quiet' => Quiet) /\ UNCHANGED aired /\ requested' \in 0 .. MaxRequests
    BY <1>1, <1>5, <2>2, <2>3, RequestKeeps
  <2> QED
    BY <1>8, <1>20, <2>4 DEF W!webchatVars
<1> QED
  BY <1>10, <1>11, <1>12, <1>13, <1>14, <1>15, <1>16, <1>17, <1>18, <1>19, <1>20

-----------------------------------------------------------------------------
(* Process *)

\* What Process has of Sessions is what Rooms has.
LEMMA ProcessHas ==
  ASSUME NEW c, NEW m, NEW g, NEW s, NEW r
  PROVE  /\ P!Shared(c) => Shared(c)
         /\ P!Connect(c) => Connects(c)
         /\ P!SendManifest(c, g, s) => SendManifest(c, g, s)
         /\ P!SendSnapshot(c, m, g) => SendSnapshot(c, m, g)
         /\ P!Answer(c, r, m, g) => Answer(c, r, m, g)
         /\ P!Takes(c, r) => Takes(c, r)
         /\ P!Air(m) => Air(m)
         /\ P!ClientReads(c) => ClientReads(c)
         /\ P!ClientRequests(c, r) => requested < MaxInputs /\ requested' = requested + 1 /\ Requests(c, r)
         /\ P!ClientSent(c, r) => ClientSent(c, r)
         /\ P!At(c, s) => At(c, s)
         /\ P!Advance(c, s) => Advance(c, s)
         /\ P!Message(s) = Message(s) /\ P!Snapshot(m) = Snapshot(m)
         /\ P!channelVars = channelVars /\ P!clientVars = clientVars /\ P!handlerVars = handlerVars
<1> USE DEF P!Message, Message, P!Snapshot, Snapshot, P!Nothing, Nothing, P!handlerVars, handlerVars,
       P!channelVars, channelVars, P!clientVars, clientVars, P!At, At, P!Advance, Advance,
       P!Gone, Gone, P!CanRead, CanRead, P!CanWrite, CanWrite
<1>1. P!Send(c, m, g, s) => Send(c, m, g, s)
  BY DEF P!Send, Send
<1>2. P!Flush(c) => Flush(c)
  BY DEF P!Flush, Flush
<1>3. P!Subscribe(c) => Subscribe(c)
  BY DEF P!Subscribe, Subscribe
<1>4. P!Relay(c) => Relay(c)
  BY DEF P!Relay, Relay, P!Send, Send
<1>5. (P!HangUp(c) => HangUp(c)) /\ (P!ClientCloses(c) => ClientCloses(c))
  BY DEF P!HangUp, HangUp, P!ClientCloses, ClientCloses
<1>6. P!Shared(c) => Shared(c)
  BY <1>2, <1>3, <1>4, <1>5 DEF P!Shared, Shared
<1>7. P!Connect(c) => Connects(c)
  BY DEF P!Connect, Connects
<1>8. P!SendManifest(c, g, s) => SendManifest(c, g, s)
  BY DEF P!SendManifest, SendManifest, P!Send, Send
<1>9. P!SendSnapshot(c, m, g) => SendSnapshot(c, m, g)
  BY DEF P!SendSnapshot, SendSnapshot, P!Send, Send
<1>10. P!Takes(c, r) => Takes(c, r)
  BY DEF P!Takes, Takes
<1>11. P!Answer(c, r, m, g) => Answer(c, r, m, g)
  BY DEF P!Answer, Answer, P!Takes, Takes, P!Send, Send
<1>12. P!Air(m) => Air(m)
  BY DEF P!Air, Air, P!Receives, Receives, P!Lower, Lower
<1>13. P!ClientReads(c) => ClientReads(c)
  BY DEF P!ClientReads, ClientReads, P!ClientAfter, ClientAfter
<1>14. P!ClientRequests(c, r) => requested < MaxInputs /\ requested' = requested + 1 /\ Requests(c, r)
  BY DEF P!ClientRequests, Requests
<1>15. P!ClientSent(c, r) => ClientSent(c, r)
  BY DEF P!ClientSent, ClientSent
<1> QED
  BY <1>6, <1>7, <1>8, <1>9, <1>10, <1>11, <1>12, <1>13, <1>14, <1>15

\* Nothing of the sessions changes.
LEMMA SessionsStay ==
  ASSUME NEW e, NEW M, SessionsOf(e, M), UNCHANGED <<step, writing, holds, inbox, outbox, aired, behind, since, client, heard>>
  PROVE  SessionsOf(e, M)'
BY DEF SessionsOf, Shapes, ConnectionOf

\* A window that goes from t to u: the client prints what is beyond the lines it saw.
LEMMA PrintsMore ==
  ASSUME ExampleAssumption, NEW t \in Nat, NEW u \in Nat, t <= u, NEW p, Printed(p, t)
  PROVE  Printed(p \o P!Skip(Window(u, MaxLines), Lower(t, MaxLines)), u)
<1> DEFINE w == Window(u, MaxLines)
           n == Lower(t, MaxLines)
           l == Lower(u, MaxLines)
           k == SubSeq(w, n + 1, l)
           q == p \o k
<1>1. MaxLines \in Nat \ {0}
  BY DEF ExampleAssumption
<1>2. w \in Seq(Nat) /\ Len(w) = l /\ \A i \in 1 .. l : w[i] = u - l + i
  <2>1. w \in Seq(Nat) /\ Len(w) = l /\ \A i \in 1 .. Len(w) : w[i] = u - Len(w) + i
    BY <1>1, WindowIs
  <2> HIDE DEF w, l
  <2> QED
    BY <2>1
<1>3. /\ n \in Nat /\ l \in Nat /\ n <= l /\ l <= u /\ t <= u - l + n /\ u - l \in Nat /\ n <= t
      /\ u <= MaxLines => l = u /\ n = t
  BY <1>1 DEF Lower
<1>4. P!Skip(w, n) = k
  BY <1>2 DEF P!Skip
<1> HIDE DEF w, n, l
<1>5. k \in Seq(Nat) /\ Len(k) = l - n /\ \A i \in 1 .. l - n : k[i] = u - l + n + i
  <2>1. \A i \in n + 1 .. l : w[i] \in Nat
    BY <1>2, <1>3
  <2>2. n + 1 \in Int /\ l \in Int
    BY <1>3
  <2>3. /\ k \in Seq(Nat) /\ Len(k) = IF n + 1 <= l THEN l - (n + 1) + 1 ELSE 0
        /\ \A i \in 1 .. Len(k) : k[i] = w[n + 1 + i - 1]
    BY <2>1, <2>2, SubSeqProperties
  <2>4. Len(k) = l - n
    BY <1>3, <2>3
  <2>5. ASSUME NEW i \in 1 .. l - n PROVE k[i] = u - l + n + i
    <3>1. n + i \in 1 .. l /\ n + 1 + i - 1 = n + i
      BY <1>3
    <3>2. k[i] = w[n + i]
      BY <2>3, <2>4, <3>1
    <3>3. w[n + i] = u - l + (n + i)
      BY <1>2, <3>1
    <3> QED
      BY <1>3, <3>2, <3>3
  <2> QED
    BY <2>3, <2>4, <2>5
<1> HIDE DEF k
<1>6. p \in Seq(1 .. t) /\ Rises(p) /\ Len(p) \in Nat /\ (t <= MaxLines => Len(p) = t)
  BY DEF Printed
<1>7. p \in Seq(1 .. u)
  <2>1. 1 .. t \subseteq 1 .. u
    OBVIOUS
  <2> QED
    BY <1>6, <2>1, SeqWider
<1>8. k \in Seq(1 .. u)
  <2>1. \A i \in 1 .. Len(k) : k[i] \in 1 .. u
    BY <1>3, <1>5
  <2> QED
    BY <1>5, <2>1
<1>9. /\ q \in Seq(1 .. u) /\ Len(q) = Len(p) + (l - n)
      /\ \A i \in 1 .. Len(p) : q[i] = p[i]
      /\ \A i \in 1 .. l - n : q[Len(p) + i] = k[i]
  <2>1. /\ q \in Seq(1 .. u) /\ Len(q) = Len(p) + Len(k)
        /\ \A i \in 1 .. Len(p) + Len(k) : q[i] = IF i <= Len(p) THEN p[i] ELSE k[i - Len(p)]
    BY <1>7, <1>8, ConcatProperties
  <2> HIDE DEF q
  <2>2. \A i \in 1 .. Len(p) : q[i] = p[i]
    <3>1. \A i \in 1 .. Len(p) : i \in 1 .. Len(p) + Len(k) /\ i <= Len(p)
      BY <1>3, <1>5, <1>6
    <3> QED
      BY <2>1, <3>1
  <2>3. ASSUME NEW i \in 1 .. l - n PROVE q[Len(p) + i] = k[i]
    <3>1. /\ Len(p) + i \in 1 .. Len(p) + Len(k) /\ ~ (Len(p) + i <= Len(p))
          /\ Len(p) + i - Len(p) = i
      BY <1>3, <1>5, <1>6
    <3>2. q[Len(p) + i] = k[Len(p) + i - Len(p)]
      BY <2>1, <3>1
    <3> QED
      BY <3>1, <3>2
  <2> QED
    BY <1>5, <2>1, <2>2, <2>3
<1> HIDE DEF q
<1>10. \A i \in 1 .. Len(p) : p[i] \in Nat /\ p[i] <= t
  BY <1>6
<1>11. ASSUME NEW i \in 1 .. Len(q), NEW j \in 1 .. Len(q), i < j PROVE q[i] < q[j]
  <2>1. CASE j \in 1 .. Len(p)
    <3>1. i \in 1 .. Len(p)
      BY <1>11, <2>1
    <3> QED
      BY <1>6, <1>9, <1>11, <2>1, <3>1 DEF Rises
  <2>2. CASE j \in Len(p) + 1 .. Len(p) + (l - n)
    <3>1. j - Len(p) \in 1 .. l - n /\ q[j] = k[j - Len(p)]
      <4>1. j - Len(p) \in 1 .. l - n /\ Len(p) + (j - Len(p)) = j
        BY <1>3, <1>6, <2>2
      <4> QED
        BY <1>9, <4>1
    <3>2. q[j] = u - l + n + (j - Len(p))
      BY <1>5, <3>1
    <3>3. CASE i \in 1 .. Len(p)
      <4>1. q[i] \in Nat /\ q[i] <= t
        BY <1>9, <1>10, <3>3
      <4> QED
        BY <1>3, <1>6, <3>1, <3>2, <4>1
    <3>4. CASE i \in Len(p) + 1 .. Len(p) + (l - n)
      <4>1. i - Len(p) \in 1 .. l - n /\ q[i] = k[i - Len(p)]
        <5>1. i - Len(p) \in 1 .. l - n /\ Len(p) + (i - Len(p)) = i
          BY <1>3, <1>6, <3>4
        <5> QED
          BY <1>9, <5>1
      <4>2. q[i] = u - l + n + (i - Len(p))
        BY <1>5, <4>1
      <4> QED
        BY <1>3, <1>6, <1>11, <3>1, <3>2, <4>1, <4>2
    <3> QED
      BY <1>3, <1>6, <1>9, <3>3, <3>4
  <2> QED
    BY <1>3, <1>6, <1>9, <2>1, <2>2
<1>12. Rises(q)
  BY <1>11 DEF Rises
<1>13. u <= MaxLines => Len(q) = u
  <2>1. ASSUME u <= MaxLines PROVE Len(q) = u
    <3>1. l = u /\ n = t /\ Len(p) = t
      BY <1>1, <1>3, <1>6, <2>1
    <3> QED
      BY <1>9, <3>1
  <2> QED
    BY <2>1
<1>14. Printed(q, u)
  BY <1>9, <1>12, <1>13 DEF Printed
<1> QED
  BY <1>4, <1>14 DEF q, k, w, n, l

\* The last window a client read.
LEMMA HeardIs ==
  ASSUME ExampleAssumption, NEW n \in Nat, NEW h \in Wired("process", n) \cup {Nothing}, h = Nothing \/ Snap(h)
  PROVE  /\ Age("process", h) \in Nat
         /\ (IF h = Nothing THEN 0 ELSE Len(h.data.lines)) = Lower(Age("process", h), MaxLines)
         /\ h # Nothing => h.data.lines = Window(Age("process", h), MaxLines)
<1>1. MaxLines \in Nat \ {0}
  BY DEF ExampleAssumption
<1>2. CASE h = Nothing
  BY <1>1, <1>2, AgeOfNothing DEF Lower
<1>3. CASE h # Nothing
  <2>1. PICK r \in BOOLEAN : h = Snapshot(ViewOf("process", Age("process", h), r)) /\ Age("process", h) \in Nat
    BY <1>3, WiredIs DEF Programs
  <2>2. h.data.lines = Window(Age("process", h), MaxLines)
    BY <2>1 DEF Snapshot, ViewOf
  <2>3. Len(h.data.lines) = Lower(Age("process", h), MaxLines)
    BY <1>1, <2>1, <2>2, WindowIs
  <2> QED
    BY <1>3, <2>1, <2>2, <2>3
<1> QED
  BY <1>2, <1>3

LEMMA PrintsWhatItReads ==
  ASSUME ExampleAssumption, NEW n \in Nat, NEW h \in Wired("process", n) \cup {Nothing}, h = Nothing \/ Snap(h),
         NEW m \in Wired("process", n), Snap(m), Before("process", h, m) \/ m = h,
         NEW p, NEW k, Prints(h, p, k)
  PROVE  Prints(m, p \o P!Skip(m.data.lines, k), Len(m.data.lines))
<1> DEFINE t == Age("process", h)
           u == Age("process", m)
<1>1. t \in Nat /\ k = Lower(t, MaxLines) /\ Printed(p, t)
  BY HeardIs DEF Prints
<1>2. u \in Nat /\ m.data.lines = Window(u, MaxLines) /\ m # Nothing
  BY HeardIs, NothingIs
<1>3. t <= u
  <2>1. CASE h = Nothing
    BY <1>2, <2>1, AgeOfNothing
  <2>2. CASE h # Nothing
    BY <1>1, <2>2 DEF Before
  <2> QED
    BY <2>1, <2>2
<1> HIDE DEF t, u
<1>4. Printed(p \o P!Skip(Window(u, MaxLines), Lower(t, MaxLines)), u)
  BY <1>1, <1>2, <1>3, PrintsMore
<1>5. Printed(p \o P!Skip(m.data.lines, k), u)
  BY <1>1, <1>2, <1>4
<1> QED
  BY <1>2, <1>5 DEF Prints, u

LEMMA ProcessHolds ==
  ASSUME NEW M, M = Wired("process", logged'), example' = "process", SessionsOf("process", M)', logged' \in Nat,
         lines' = Window(logged', MaxLines), running' \in BOOLEAN, updates' \in Nat,
         updates' <= logged' + (IF running' THEN 0 ELSE 1), requested' \in 0 .. MaxInputs,
         updates' = 0 => AiredLast(aired', Snapshot(ViewOf("process", logged', running'))),
         DOMAIN printed' = Conns, DOMAIN seen' = Conns,
         \A c \in Conns : Prints(heard'[c], printed'[c], seen'[c])
  PROVE  ProcessInv'
<1>1. Newest' = logged'
  BY DEF Newest
<1>2. SessionsInv'
  BY <1>1 DEF SessionsInv, SessionsOf, Shapes, ConnectionOf
<1> QED
  BY <1>2 DEF ProcessInv

LEMMA ProcessStarts ==
  ASSUME SessionAssumption, ExampleAssumption, example = "process", P!Init
  PROVE  ProcessInv
<1>1. /\ SessionsOf("process", Wired("process", 0)) /\ aired = <<>> /\ requested = 0
      /\ heard = [c \in Conns |-> Nothing]
  BY SessionsStart DEF P!Init, P!SessionInit, SessionInit, P!Nothing, P!Message, Nothing, Message
<1>2. /\ lines = <<>> /\ logged = 0 /\ running = TRUE /\ updates = 0
      /\ printed = [c \in Conns |-> <<>>] /\ seen = [c \in Conns |-> 0]
  BY DEF P!Init
<1>3. lines = Window(logged, MaxLines)
  BY <1>2, WindowIs DEF ExampleAssumption
<1>4. AiredLast(aired, Snapshot(ViewOf("process", logged, running)))
  BY <1>1 DEF AiredLast
<1>5. requested \in 0 .. MaxInputs
  BY <1>1 DEF SessionAssumption, ExampleAssumption
<1>6. Printed(<<>>, 0)
  BY DEF Printed, Rises
<1>7. \A c \in Conns : Prints(heard[c], printed[c], seen[c])
  BY <1>1, <1>2, <1>6, AgeOfNothing DEF Prints
<1>8. /\ updates \in Nat /\ updates <= logged + (IF running THEN 0 ELSE 1) /\ logged \in Nat /\ running \in BOOLEAN
      /\ DOMAIN printed = Conns /\ DOMAIN seen = Conns
  BY <1>2
<1>9. SessionsInv
  BY <1>1, <1>2 DEF SessionsInv, Newest
<1>10. updates = 0 => AiredLast(aired, Snapshot(ViewOf("process", logged, running)))
  BY <1>4
<1> QED
  BY <1>3, <1>5, <1>7, <1>8, <1>9, <1>10 DEF ProcessInv

LEMMA ProcessSteps ==
  ASSUME SessionAssumption, ExampleAssumption, ProcessInv, example = "process", example' = "process", P!Next
  PROVE  ProcessInv'
<1> DEFINE Now == Snapshot(ViewOf("process", logged, running))
<1>1. /\ SessionsOf("process", Wired("process", logged)) /\ logged \in Nat /\ lines = Window(logged, MaxLines)
      /\ running \in BOOLEAN /\ updates \in Nat /\ updates <= logged + (IF running THEN 0 ELSE 1)
      /\ requested \in 0 .. MaxInputs /\ (updates = 0 => AiredLast(aired, Now))
      /\ DOMAIN printed = Conns /\ DOMAIN seen = Conns
      /\ \A c \in Conns : Prints(heard[c], printed[c], seen[c])
  BY DEF ProcessInv, SessionsInv, Newest
<1>2. logged' = logged \/ logged' = logged + 1
  BY DEF P!Next, P!processVars, P!outputVars, P!LogsLine, P!NoticesExit, P!FeedsStdin, P!Broadcasts, P!Joins, P!Greets,
         P!Shows, P!TakesInput, P!TakesSignal, P!RefusesInput, P!HandlePing, P!Leaves, P!Reads
<1>3. logged' \in Nat /\ logged <= logged'
  BY <1>1, <1>2
<1> SUFFICES ASSUME NEW M, M = Wired("process", logged') PROVE ProcessInv'
  OBVIOUS
<1>4. /\ Nothing \notin M /\ Replies \subseteq M /\ \A x \in Replies : ~ Snap(x)
      /\ \A t \in 0 .. logged', r \in BOOLEAN : Snapshot(ViewOf("process", t, r)) \in M
  BY <1>3, WiredIs DEF Programs
<1>5. SessionsOf("process", M)
  BY <1>1, <1>3, WiredWider, SessionsWider
<1>6. MayAir("process", Now) /\ Snap(Now)
  <2>1. logged <= logged /\ "process" \in Programs
    BY <1>1 DEF Programs
  <2> QED
    BY <1>1, <2>1, NewestMayAir DEF Snap, Snapshot
<1>7. Now \in M /\ P!View(lines, running) = ViewOf("process", logged, running)
  <2>1. logged \in 0 .. logged'
    BY <1>1, <1>3
  <2>2. P!View(lines, running) = ViewOf("process", logged, running)
    BY <1>1 DEF P!View, ViewOf
  <2> QED
    BY <1>1, <1>4, <2>1, <2>2
<1> HIDE DEF Now
<1>8. ASSUME SessionsOf("process", M)', UNCHANGED <<heard, printed, seen, lines, logged, running, updates, aired>>,
             requested' \in 0 .. MaxInputs
      PROVE  ProcessInv'
  BY <1>1, <1>8, ProcessHolds DEF Now
<1>9. ASSUME Kept("process", M), heard' = heard, UNCHANGED P!processVars
      PROVE  ProcessInv'
  BY <1>1, <1>8, <1>9 DEF Kept, P!processVars, P!outputVars, P!printVars
<1>10. CASE P!LogsLine
  <2>1. /\ logged' = logged + 1 /\ updates' = updates + 1
        /\ lines' = IF Len(lines) = MaxLines THEN Append(Tail(lines), logged + 1) ELSE Append(lines, logged + 1)
        /\ UNCHANGED <<running, printed, seen, step, writing, holds, inbox, outbox, aired, behind, since, client, heard,
                       requested>>
    BY <1>10 DEF P!LogsLine, P!printVars, P!sessionVars, P!handlerVars, P!channelVars, P!clientVars
  <2>2. SessionsOf("process", M)'
    BY <1>5, <2>1, SessionsStay
  <2>3. lines' = Window(logged', MaxLines)
    BY <1>1, <2>1, WindowAdds DEF ExampleAssumption
  <2>4. updates' \in Nat /\ updates' # 0 /\ updates' <= logged' + (IF running' THEN 0 ELSE 1)
    BY <1>1, <2>1
  <2> QED
    BY <1>1, <1>3, <2>1, <2>2, <2>3, <2>4, ProcessHolds
<1>11. CASE P!NoticesExit
  <2>1. /\ running /\ running' = FALSE /\ updates' = updates + 1
        /\ UNCHANGED <<lines, logged, printed, seen, step, writing, holds, inbox, outbox, aired, behind, since, client,
                       heard, requested>>
    BY <1>11 DEF P!NoticesExit, P!printVars, P!sessionVars, P!handlerVars, P!channelVars, P!clientVars
  <2>2. SessionsOf("process", M)'
    BY <1>5, <2>1, SessionsStay
  <2>3. updates' \in Nat /\ updates' # 0 /\ updates' <= logged' + (IF running' THEN 0 ELSE 1)
    BY <1>1, <2>1
  <2> QED
    BY <1>1, <2>1, <2>2, <2>3, ProcessHolds
<1>12. CASE P!FeedsStdin
  <2>1. UNCHANGED <<lines, logged, running, updates, printed, seen, step, writing, holds, inbox, outbox, aired, behind,
                    since, client, heard, requested>>
    BY <1>12 DEF P!FeedsStdin, P!printVars, P!outputVars, P!sessionVars, P!handlerVars, P!channelVars, P!clientVars
  <2>2. SessionsOf("process", M)'
    BY <1>5, <2>1, SessionsStay
  <2> QED
    BY <1>1, <1>8, <2>1, <2>2
<1>13. CASE P!Broadcasts
  <2>1. /\ updates > 0 /\ updates' = updates - 1 /\ Air(Snapshot(P!View(lines, running)))
        /\ UNCHANGED <<lines, logged, running, printed, seen, step, writing, holds, inbox, outbox, client, heard,
                       requested>>
    BY <1>13, ProcessHas DEF P!Broadcasts, P!printVars, P!outputVars, P!handlerVars, P!clientVars
  <2>2. Air(Now)
    BY <1>7, <2>1 DEF Now
  <2>3. SessionsOf("process", M)' /\ AiredLast(aired', Now)
    BY <1>5, <1>6, <1>7, <2>1, <2>2, AirsAlone
  <2>4. updates' \in Nat /\ updates' <= logged' + (IF running' THEN 0 ELSE 1)
    BY <1>1, <2>1
  <2> QED
    BY <1>1, <2>1, <2>3, <2>4, ProcessHolds DEF Now
<1>14. ASSUME NEW c \in Conns,
         \/ P!Shared(c) /\ UNCHANGED P!processVars
         \/ P!Joins(c)
         \/ P!Greets(c)
         \/ P!Shows(c)
         \/ P!TakesInput(c)
         \/ P!TakesSignal(c)
         \/ P!RefusesInput(c)
         \/ P!HandlePing(c)
         \/ P!Leaves(c)
         \/ P!Reads(c)
         \/ \E r \in P!Requests : (P!ClientRequests(c, r) \/ P!ClientSent(c, r)) /\ UNCHANGED P!processVars
       PROVE  ProcessInv'
  <2>1. CASE P!Shared(c) /\ UNCHANGED P!processVars
    BY <1>4, <1>5, <1>9, <2>1, ProcessHas, SharedKeeps
  <2>2. CASE P!Joins(c)
    <3>1. Connects(c) /\ UNCHANGED <<printed, seen, lines, logged, running, updates>>
      BY <2>2, ProcessHas DEF P!Joins, P!processVars, P!outputVars, P!printVars
    <3>2. SessionsOf("process", M)' /\ UNCHANGED <<aired, heard, requested>>
      BY <1>5, <3>1, JoinKeeps
    <3> QED
      BY <1>1, <1>8, <3>1, <3>2
  <2>3. CASE P!Greets(c)
    <3>1. SendManifest(c, "read", "snapshot") /\ UNCHANGED P!processVars
      BY <2>3, ProcessHas DEF P!Greets
    <3> QED
      BY <1>4, <1>5, <1>9, <3>1, GreetKeeps
  <2>4. CASE P!Shows(c)
    <3>1. SendSnapshot(c, ViewOf("process", logged, running), "read") /\ UNCHANGED P!processVars
      BY <1>7, <2>4, ProcessHas DEF P!Shows
    <3> QED
      BY <1>4, <1>5, <1>6, <1>7, <1>9, <3>1, ShowKeeps DEF Now
  <2>5. CASE P!TakesInput(c) \/ P!TakesSignal(c)
    <3>1. /\ Takes(c, "intent") /\ UNCHANGED <<handlerVars, outbox, channelVars, clientVars>>
          /\ UNCHANGED <<printed, seen, lines, logged, running, updates>>
      BY <2>5, ProcessHas DEF P!TakesInput, P!TakesSignal, P!processVars, P!outputVars, P!printVars,
         P!clientVars, clientVars, P!handlerVars, handlerVars, P!channelVars, channelVars
    <3>2. /\ step[c] = "loop" /\ writing[c] = Nothing /\ "loop" \in Steps
          /\ inbox[c] # <<>> /\ inbox' = [inbox EXCEPT ![c] = Tail(@)]
          /\ UNCHANGED <<step, writing, holds>>
      BY <3>1 DEF Takes, At, handlerVars, Steps
    <3>3. step' = [step EXCEPT ![c] = "loop"]
      BY <1>5, <3>2, Same
    <3>4. SessionsOf("process", M)'
      BY <1>5, <3>1, <3>2, <3>3, GoesOn
    <3> QED
      BY <1>1, <1>8, <3>1, <3>4 DEF channelVars, clientVars
  <2>6. CASE P!RefusesInput(c)
    <3>1. Answer(c, "intent", Message("error"), "write") /\ UNCHANGED P!processVars
      BY <2>6, ProcessHas DEF P!RefusesInput
    <3>2. Message("error") \in M /\ ~ Snap(Message("error"))
      BY <1>4 DEF Replies
    <3> QED
      BY <1>4, <1>5, <1>9, <3>1, <3>2, AnswerKeeps
  <2>7. CASE P!HandlePing(c)
    <3>1. Answer(c, "ping", Message("pong"), "none") /\ UNCHANGED P!processVars
      BY <2>7, ProcessHas DEF P!HandlePing
    <3>2. Message("pong") \in M /\ ~ Snap(Message("pong"))
      BY <1>4 DEF Replies
    <3> QED
      BY <1>4, <1>5, <1>9, <3>1, <3>2, AnswerKeeps
  <2>8. CASE P!Leaves(c)
    <3>1. /\ At(c, "leaving") /\ Advance(c, "gone")
          /\ UNCHANGED <<writing, holds, inbox, outbox, channelVars, clientVars>>
          /\ UNCHANGED <<printed, seen, lines, logged, running, updates>>
      BY <2>8, ProcessHas DEF P!Leaves, P!processVars, P!outputVars, P!printVars,
         P!clientVars, clientVars, P!channelVars, channelVars
    <3>2. step[c] = "leaving" /\ writing[c] = Nothing /\ step' = [step EXCEPT ![c] = "gone"] /\ "gone" \in Steps
      BY <3>1 DEF At, Advance, Steps
    <3>3. SessionsOf("process", M)'
      BY <1>5, <3>1, <3>2, GoesOn
    <3> QED
      BY <1>1, <1>8, <3>1, <3>3 DEF channelVars, clientVars
  <2>9. CASE P!Reads(c)
    <3> DEFINE m == Head(outbox[c])
    <3>1. /\ ClientReads(c) /\ UNCHANGED <<lines, logged, running, updates>>
          /\ IF Snap(m)
               THEN /\ printed' = [printed EXCEPT ![c] = @ \o P!Skip(m.data.lines, seen[c])]
                    /\ seen' = [seen EXCEPT ![c] = Len(m.data.lines)]
               ELSE UNCHANGED <<printed, seen>>
      BY <2>9, ProcessHas DEF P!Reads, P!outputVars, P!printVars, Snap
    <3>2. /\ SessionsOf("process", M)' /\ UNCHANGED <<aired, requested>> /\ m \in M
          /\ heard' = [heard EXCEPT ![c] = IF Snap(m) THEN m ELSE heard[c]]
          /\ (Before("process", heard[c], heard'[c]) \/ heard'[c] = heard[c])
      BY <1>5, <3>1, SessionsRead, ReadKeeps DEF Kept
    <3>3. /\ DOMAIN heard = Conns /\ heard[c] \in M \cup {Nothing} /\ (heard[c] = Nothing \/ Snap(heard[c]))
      BY <1>5, Unchanged DEF SessionsOf, Shapes, Typed, Connection
    <3> HIDE DEF m
    <3>4. DOMAIN printed' = Conns /\ DOMAIN seen' = Conns
      BY <1>1, <3>1
    <3>5. \A d \in Conns : d # c => heard'[d] = heard[d] /\ printed'[d] = printed[d] /\ seen'[d] = seen[d]
      BY <1>1, <3>1, <3>2, <3>3
    <3>6. Prints(heard'[c], printed'[c], seen'[c])
      <4>1. CASE Snap(m)
        <5>1. /\ heard'[c] = m /\ printed'[c] = printed[c] \o P!Skip(m.data.lines, seen[c])
              /\ seen'[c] = Len(m.data.lines)
          BY <1>1, <3>1, <3>2, <3>3, <4>1
        <5>2. Prints(m, printed[c] \o P!Skip(m.data.lines, seen[c]), Len(m.data.lines))
          BY <1>1, <1>3, <3>2, <3>3, <4>1, <5>1, PrintsWhatItReads
        <5> QED
          BY <5>1, <5>2
      <4>2. CASE ~ Snap(m)
        <5>1. heard'[c] = heard[c] /\ printed'[c] = printed[c] /\ seen'[c] = seen[c]
          BY <3>1, <3>2, <3>3, <4>2
        <5> QED
          BY <1>1, <5>1
      <4> QED
        BY <4>1, <4>2
    <3>7. \A d \in Conns : Prints(heard'[d], printed'[d], seen'[d])
      BY <1>1, <3>5, <3>6
    <3> QED
      BY <1>1, <1>3, <3>1, <3>2, <3>4, <3>7, ProcessHolds DEF Now
  <2>10. CASE \E r \in P!Requests : (P!ClientRequests(c, r) \/ P!ClientSent(c, r)) /\ UNCHANGED P!processVars
    <3>1. PICK r \in P!Requests : P!ClientRequests(c, r) \/ P!ClientSent(c, r)
      BY <2>10
    <3>2. r \in Asks /\ MaxInputs \in Nat
      BY DEF P!Requests, Asks, SessionAssumption, ExampleAssumption
    <3>3. ClientSent(c, r) \/ (requested < MaxInputs /\ requested' = requested + 1 /\ Requests(c, r))
      BY <3>1, ProcessHas
    <3>4. SessionsOf("process", M)' /\ UNCHANGED <<aired, heard>> /\ requested' \in 0 .. MaxInputs
      BY <1>1, <1>5, <3>2, <3>3, RequestKeeps
    <3> QED
      BY <1>8, <2>10, <3>4 DEF P!processVars, P!outputVars, P!printVars
  <2> QED
    BY <1>14, <2>1, <2>2, <2>3, <2>4, <2>5, <2>6, <2>7, <2>8, <2>9, <2>10
<1> QED
  BY <1>10, <1>11, <1>12, <1>13, <1>14 DEF P!Next

-----------------------------------------------------------------------------
(* The invariant, and what follows from it *)

LEMMA RoomsStart ==
  ASSUME SessionAssumption, ExampleAssumption, Init
  PROVE  RoomsInv
BY ChatStarts, WebchatStarts, ProcessStarts DEF Init, RoomsInv

LEMMA RoomsStay ==
  ASSUME RoomsInv, UNCHANGED vars
  PROVE  RoomsInv'
<1>1. /\ UNCHANGED <<step, writing, holds, inbox, outbox, aired, behind, since, client, heard, requested>>
      /\ UNCHANGED <<example, said, messages, users, lines, logged, running, updates, printed, seen>>
  BY DEF vars, sessionVars, handlerVars, channelVars, clientVars, chatVars, processVars
<1>2. Served' = Served /\ Quiet' = Quiet
  BY <1>1 DEF Served, Quiet
<1>3. SessionsInv => SessionsInv'
  <2>1. example' = example /\ Newest' = Newest
    BY <1>1 DEF Newest
  <2> QED
    BY <1>1, <2>1, SessionsStay DEF SessionsInv
<1>4. ChatInv => ChatInv'
  BY <1>1, <1>2, <1>3 DEF ChatInv
<1>5. WebchatInv => WebchatInv'
  BY <1>1, <1>2, <1>3 DEF WebchatInv
<1>6. ProcessInv => ProcessInv'
  BY <1>1, <1>2, <1>3 DEF ProcessInv
<1> QED
  BY <1>1, <1>4, <1>5, <1>6 DEF RoomsInv

LEMMA RoomsStep ==
  ASSUME SessionAssumption, ExampleAssumption, RoomsInv, Next
  PROVE  RoomsInv'
<1>1. CASE Chat(C!Next)
  BY <1>1, ChatSteps DEF Chat, RoomsInv
<1>2. CASE Webchat(W!Next)
  BY <1>2, WebchatSteps DEF Webchat, RoomsInv
<1>3. CASE Process(P!Next)
  BY <1>3, ProcessSteps DEF Process, RoomsInv
<1> QED
  BY <1>1, <1>2, <1>3 DEF Next

LEMMA RoomsHold == Spec => []RoomsInv
<1>1. Init => RoomsInv
  BY RoomsStart, SessionAssumption, ExampleAssumption
<1>2. RoomsInv /\ [Next]_vars => RoomsInv'
  BY RoomsStep, RoomsStay, SessionAssumption, ExampleAssumption
<1> QED
  BY <1>1, <1>2, PTL DEF Spec

\* A window is the newest there are, one after the other.
LEMMA WindowTypes ==
  ASSUME NEW t \in Nat, NEW k \in Nat \ {0}
  PROVE  LET w == Window(t, k) IN
         /\ w \in [1 .. Len(w) -> Nat] /\ Len(w) <= k
         /\ \A i \in 1 .. Len(w) : w[i] = t - Len(w) + i
<1> DEFINE w == Window(t, k)
<1>1. w \in Seq(Nat) /\ Len(w) <= k
  BY WindowIs DEF Lower
<1>2. \A i \in 1 .. Len(w) : w[i] = t - Len(w) + i
  BY WindowIs
<1>3. w \in [1 .. Len(w) -> Nat]
  BY <1>1
<1> QED
  BY <1>1, <1>2, <1>3

LEMMA SessionsTyped ==
  ASSUME SessionAssumption, NEW e, NEW M, SessionsOf(e, M)
  PROVE  /\ step \in [Conns -> Steps] /\ holds \in [Conns -> {"none", "read", "write"}]
         /\ client \in [Conns -> ClientSteps] /\ Len(aired) <= Capacity
         /\ \A c \in Conns :
              /\ writing[c] = Nothing => holds[c] = "none"
              /\ Len(inbox[c]) <= Buffer /\ Len(outbox[c]) <= Buffer
              /\ behind[c] \in 0 .. Capacity + 1 /\ since[c] \in 0 .. Len(aired)
              /\ behind[c] > since[c] => since[c] = Capacity
BY DEF SessionsOf, Shapes, Channel, ConnectionOf, Connection, Counts

LEMMA TypesFollow ==
  ASSUME SessionAssumption, ExampleAssumption, RoomsInv
  PROVE  TypeOK
<1>0. Keep \in Nat \ {0} /\ MaxLines \in Nat \ {0}
  BY DEF ExampleAssumption
<1>1. ASSUME example = "chat" PROVE C!TypeOK
  <2>1. ChatInv
    BY <1>1 DEF RoomsInv
  <2>2. C!SessionTypes
    BY <2>1, SessionsTyped DEF ChatInv, SessionsInv, C!SessionTypes, C!Steps, C!ClientSteps, C!Nothing, C!Message,
         Steps, ClientSteps, Nothing, Message
  <2>3. users \subseteq Conns
    BY <2>1 DEF ChatInv, Served
  <2>4. messages = Window(said, Keep) /\ said \in Nat
    BY <2>1 DEF ChatInv
  <2>5. messages = [i \in 1 .. Len(messages) |-> said - Len(messages) + i] /\ Len(messages) <= Keep
    <3>1. /\ messages \in [1 .. Len(messages) -> Nat] /\ Len(messages) <= Keep
          /\ \A i \in 1 .. Len(messages) : messages[i] = said - Len(messages) + i
      BY <1>0, <2>4, WindowTypes
    <3> QED
      BY <3>1
  <2> QED
    BY <2>2, <2>3, <2>5 DEF C!TypeOK
<1>2. ASSUME example = "webchat" PROVE W!TypeOK
  <2>1. WebchatInv
    BY <1>2 DEF RoomsInv
  <2>2. W!SessionTypes
    BY <2>1, SessionsTyped DEF WebchatInv, SessionsInv, W!SessionTypes, W!Steps, W!ClientSteps, W!Nothing, W!Message,
         Steps, ClientSteps, Nothing, Message
  <2>3. messages = Window(said, Keep) /\ said \in Nat
    BY <2>1 DEF WebchatInv
  <2>4. messages = [i \in 1 .. Len(messages) |-> said - Len(messages) + i] /\ Len(messages) <= Keep
    <3>1. /\ messages \in [1 .. Len(messages) -> Nat] /\ Len(messages) <= Keep
          /\ \A i \in 1 .. Len(messages) : messages[i] = said - Len(messages) + i
      BY <1>0, <2>3, WindowTypes
    <3> QED
      BY <3>1
  <2> QED
    BY <2>2, <2>4 DEF W!TypeOK
<1>3. ASSUME example = "process" PROVE P!TypeOK
  <2>1. ProcessInv
    BY <1>3 DEF RoomsInv
  <2>2. P!SessionTypes
    BY <2>1, SessionsTyped DEF ProcessInv, SessionsInv, P!SessionTypes, P!Steps, P!ClientSteps, P!Nothing, P!Message,
         Steps, ClientSteps, Nothing, Message
  <2>3. \A c \in Conns : seen[c] = IF heard[c] = P!Nothing THEN 0 ELSE Len(heard[c].data.lines)
    BY <2>1, SameNothing DEF ProcessInv, Prints
  <2>4. updates <= logged + 1
    BY <2>1 DEF ProcessInv
  <2>5. lines = Window(logged, MaxLines) /\ logged \in Nat
    BY <2>1 DEF ProcessInv
  <2>6. lines = [i \in 1 .. Len(lines) |-> logged - Len(lines) + i] /\ Len(lines) <= MaxLines
    <3>1. /\ lines \in [1 .. Len(lines) -> Nat] /\ Len(lines) <= MaxLines
          /\ \A i \in 1 .. Len(lines) : lines[i] = logged - Len(lines) + i
      BY <1>0, <2>5, WindowTypes
    <3> QED
      BY <3>1
  <2> QED
    BY <2>2, <2>3, <2>4, <2>6 DEF P!TypeOK
<1> QED
  BY <1>1, <1>2, <1>3 DEF TypeOK

LEMMA UsersFollow ==
  ASSUME RoomsInv
  PROVE  ChatKnowsItsUsers
BY DEF RoomsInv, ChatInv, Served, Out, ChatKnowsItsUsers, C!UsersAreServedOrAbandoned

LEMMA PrintsFollow ==
  ASSUME RoomsInv
  PROVE  PrintsEachLineOnce
<1> SUFFICES ASSUME example = "process", NEW c \in Conns
             PROVE  /\ \A i, j \in DOMAIN printed[c] : i < j => printed[c][i] < printed[c][j]
                    /\ P!Latest(heard[c]) <= MaxLines => Len(printed[c]) = P!Latest(heard[c])
  BY DEF PrintsEachLineOnce, P!PrintsEachLineOnce
<1>1. Printed(printed[c], Age("process", heard[c]))
  BY DEF RoomsInv, ProcessInv, Prints
<1>2. Age("process", heard[c]) = P!Latest(heard[c])
  BY DEF Age
<1>3. DOMAIN printed[c] = 1 .. Len(printed[c])
  BY <1>1 DEF Printed
<1> QED
  BY <1>1, <1>2, <1>3 DEF Printed, Rises

\* A drained client heard the last snapshot there was since it subscribed.
LEMMA DrainedHeard ==
  ASSUME SessionAssumption, NEW e, NEW M, SessionsOf(e, M), NEW x, AiredLast(aired, x),
         NEW c \in Conns, Drained(c), ShownSince(c)
  PROVE  heard[c] = x
<1> DEFINE n == Len(aired)
           S == {i \in 1 .. since[c] : Snap(aired[n - i + 1])}
<1>1. /\ n \in Nat /\ since[c] \in 0 .. n /\ step[c] = "loop" /\ client[c] = "ready" /\ writing[c] = Nothing
      /\ behind[c] = 0 /\ outbox[c] = <<>>
  BY DEF SessionsOf, Channel, ConnectionOf, Connection, Counts, Drained, At
<1>2. UpToDate(heard[c], <<>>, Nothing, aired, 0, since[c])
  <2>1. ConnectionOf(c, e, M)
    BY DEF SessionsOf
  <2> QED
    BY <1>1, <2>1 DEF ConnectionOf, Connection
<1>3. S \in SUBSET Nat /\ S # {}
  BY <1>1 DEF ShownSince, Snap
<1>4. PICK i \in S : \A j \in S : i <= j
  BY <1>3, LeastNumber
<1> DEFINE k == n - i + 1
<1>5. k \in 1 .. n /\ i \in 1 .. since[c] /\ k + since[c] > n /\ k + 0 <= n /\ Snap(aired[k])
  BY <1>1, <1>4
<1>6. ASSUME NEW j \in 1 .. n, j > k PROVE ~ Snap(aired[j])
  <2>1. n - j + 1 \in 1 .. since[c] /\ n - (n - j + 1) + 1 = j /\ ~ (i <= n - j + 1)
    BY <1>1, <1>5, <1>6
  <2> QED
    BY <1>4, <2>1
<1>7. LastSnap(aired, k)
  BY <1>5, <1>6 DEF LastSnap
<1>8. Ends(heard[c], <<>>, Nothing, aired[k])
  BY <1>2, <1>5, <1>7 DEF UpToDate
<1>9. aired[k] # Nothing
  BY <1>5, NothingIs
<1>10. heard[c] = aired[k]
  BY <1>8, <1>9 DEF Ends
<1> QED
  BY <1>5, <1>7, <1>10 DEF AiredLast

LEMMA DrainedFollow ==
  ASSUME SessionAssumption, ExampleAssumption, RoomsInv, example \in Programs
  PROVE  DrainedClientsAreUpToDate
<1> SUFFICES ASSUME NEW c \in Conns, Drained(c), ShownSince(c)
             PROVE  Latest(heard[c]) = Newest /\ (example = "process" => heard[c].data.running = running)
  BY DEF DrainedClientsAreUpToDate
<1>1. Latest(heard[c]) = Age(example, heard[c])
  BY DEF Latest, Age
<1>2. CASE example = "chat"
  <2>1. ChatInv
    BY <1>2 DEF RoomsInv
  <2>2. heard[c] = Snapshot(ViewOf("chat", said, TRUE)) /\ said \in Nat
    BY <2>1, DrainedHeard DEF ChatInv, SessionsInv
  <2> QED
    BY <1>1, <1>2, <2>2, AgeIs DEF Programs, Newest
<1>3. CASE example = "webchat"
  <2>1. WebchatInv /\ Quiet
    BY <1>3 DEF RoomsInv, Drained, Quiet
  <2>2. heard[c] = Snapshot(ViewOf("webchat", said, TRUE)) /\ said \in Nat
    BY <2>1, DrainedHeard DEF WebchatInv, SessionsInv
  <2> QED
    BY <1>1, <1>3, <2>2, AgeIs DEF Programs, Newest
<1>4. CASE example = "process"
  <2>1. ProcessInv /\ updates = 0
    BY <1>4 DEF RoomsInv, Drained
  <2>2. heard[c] = Snapshot(ViewOf("process", logged, running)) /\ logged \in Nat
    BY <2>1, DrainedHeard DEF ProcessInv, SessionsInv
  <2>3. heard[c].data.running = running
    BY <2>2 DEF Snapshot, ViewOf
  <2> QED
    BY <1>1, <1>4, <2>2, <2>3, AgeIs DEF Programs, Newest
<1> QED
  BY <1>2, <1>3, <1>4 DEF Programs

\* What a client heard changes when it reads, and not otherwise.
LEMMA HeardChanges ==
  ASSUME Next
  PROVE  heard' = heard \/ \E c \in Conns : ClientReads(c)
<1>1. CASE Chat(C!Next)
  <2>1. \/ heard' = heard
        \/ \E c \in Conns : C!ClientReads(c)
    BY <1>1 DEF Chat, C!Next, C!Shared, C!Flush, C!Subscribe, C!Relay, C!HangUp, C!ClientCloses, C!Joins, C!Connect,
                C!Greets, C!SendManifest, C!AnnouncesJoin, C!Shows, C!SendSnapshot, C!HandleIntent, C!HandleTransfer,
                C!HandlePing, C!Answer, C!Leaves, C!AnnouncesLeave, C!ClientRequests, C!ClientSent, C!clientVars
  <2> QED
    BY <2>1, ChatHas
<1>2. CASE Webchat(W!Next)
  <2>1. \/ heard' = heard
        \/ \E c \in Conns : W!ClientReads(c)
    BY <1>2 DEF Webchat, W!Next, W!Shared, W!Flush, W!Subscribe, W!Relay, W!HangUp, W!ClientCloses, W!Joins, W!Connect,
                W!Greets, W!SendManifest, W!Shows, W!SendSnapshot, W!AddMessage, W!BroadcastSnapshot,
                W!HandlePing, W!Answer, W!Leaves, W!ClientRequests, W!ClientSent, W!clientVars
  <2> QED
    BY <2>1, WebchatHas
<1>3. CASE Process(P!Next)
  <2>1. \/ heard' = heard
        \/ \E c \in Conns : P!ClientReads(c)
    BY <1>3 DEF Process, P!Next, P!Shared, P!Flush, P!Subscribe, P!Relay, P!HangUp, P!ClientCloses, P!Joins, P!Connect,
                P!Greets, P!SendManifest, P!Shows, P!SendSnapshot, P!TakesInput, P!TakesSignal, P!RefusesInput,
                P!HandlePing, P!Answer, P!Leaves, P!Reads, P!ClientRequests, P!ClientSent, P!clientVars,
                P!LogsLine, P!NoticesExit, P!FeedsStdin, P!Broadcasts, P!sessionVars
  <2> QED
    BY <2>1, ProcessHas
<1> QED
  BY <1>1, <1>2, <1>3 DEF Next

LEMMA HeardAges ==
  ASSUME ExampleAssumption, RoomsInv, example \in Programs
  PROVE  \E n \in Nat : /\ SessionsOf(example, Wired(example, n))
                        /\ \A c \in Conns : Age(example, heard[c]) \in Nat /\ (heard[c] = Nothing \/ Snap(heard[c]))
<1>1. SessionsInv /\ Newest \in Nat
  BY DEF RoomsInv, ChatInv, WebchatInv, ProcessInv, Programs, Newest
<1>2. SessionsOf(example, Wired(example, Newest))
  BY <1>1 DEF SessionsInv
<1>3. ASSUME NEW c \in Conns PROVE Age(example, heard[c]) \in Nat /\ (heard[c] = Nothing \/ Snap(heard[c]))
  <2>1. heard[c] \in Wired(example, Newest) \cup {Nothing} /\ (heard[c] = Nothing \/ Snap(heard[c]))
    BY <1>2 DEF SessionsOf, Shapes, ConnectionOf, Connection
  <2>2. CASE heard[c] = Nothing
    BY <2>2, AgeOfNothing
  <2>3. CASE heard[c] # Nothing
    <3>1. Age(example, heard[c]) \in 0 .. Newest
      BY <1>1, <2>1, <2>3, WiredIs
    <3> QED
      BY <1>1, <2>1, <3>1
  <2> QED
    BY <2>2, <2>3
<1> QED
  BY <1>1, <1>2, <1>3

LEMMA NeverBack ==
  ASSUME SessionAssumption, ExampleAssumption, RoomsInv, example \in Programs, [Next]_vars
  PROVE  \A c \in Conns : Latest(heard[c]) <= Latest(heard'[c])
<1>1. PICK n \in Nat : /\ SessionsOf(example, Wired(example, n))
                       /\ \A c \in Conns : Age(example, heard[c]) \in Nat /\ (heard[c] = Nothing \/ Snap(heard[c]))
  BY HeardAges
<1>2. \A m : Latest(m) = Age(example, m)
  BY DEF Latest, Age
<1> SUFFICES ASSUME NEW d \in Conns PROVE Age(example, heard[d]) <= Age(example, heard'[d])
  BY <1>2
<1>3. CASE heard' = heard
  BY <1>1, <1>3
<1>4. CASE \E c \in Conns : ClientReads(c)
  <2>1. PICK c \in Conns : ClientReads(c)
    BY <1>4
  <2> DEFINE M == Wired(example, n)
             m == Head(outbox[c])
  <2>2. /\ m \in M
        /\ heard' = [heard EXCEPT ![c] = IF Snap(m) THEN m ELSE heard[c]]
        /\ (Before(example, heard[c], heard'[c]) \/ heard'[c] = heard[c])
    BY <1>1, <2>1, SessionsRead
  <2>3. heard \in [Conns -> M \cup {Nothing}]
    BY <1>1 DEF SessionsOf, Shapes
  <2>4. CASE d # c \/ ~ Snap(m)
    <3>1. heard'[d] = heard[d]
      BY <2>2, <2>3, <2>4
    <3> QED
      BY <1>1, <3>1
  <2>5. CASE d = c /\ Snap(m)
    <3>1. heard'[d] = m /\ m \in M /\ Snap(m) /\ (Before(example, heard[d], m) \/ m = heard[d])
      BY <2>2, <2>3, <2>5
    <3>2. Age(example, m) \in Nat
      BY <3>1, WiredIs
    <3>3. CASE heard[d] = Nothing
      BY <3>1, <3>2, <3>3, AgeOfNothing
    <3>4. CASE Snap(heard[d])
      BY <1>1, <3>1, <3>4 DEF Before
    <3> QED
      BY <1>1, <3>3, <3>4
  <2> QED
    BY <2>4, <2>5
<1>5. heard' = heard \/ \E c \in Conns : ClientReads(c)
  BY HeardChanges DEF vars, sessionVars, clientVars
<1> QED
  BY <1>3, <1>4, <1>5

-----------------------------------------------------------------------------
(* The theorems *)

LEMMA ProgramStays == Spec => [](example \in Programs)
<1>1. Init => example \in Programs
  BY ExampleAssumption DEF Init, ExampleAssumption, Programs
<1>2. example \in Programs /\ [Next]_vars => (example \in Programs)'
  BY DEF Next, Chat, Webchat, Process, vars
<1> QED
  BY <1>1, <1>2, PTL DEF Spec

\* chat, webchat and process keep what their types promise: above all the room
\* is the window of the newest messages (chat/src/server.rs add_message(),
\* webchat's, log_line() of process), a handler that writes nothing holds no
\* lock, and no socket or receiver has more than fits.
THEOREM RoomTypes == Spec => []TypeOK
<1>1. RoomsInv => TypeOK
  BY TypesFollow, SessionAssumption, ExampleAssumption
<1> QED
  BY <1>1, RoomsHold, PTL

\* chat's map has the sessions being served, and for good those whose handler
\* returned the error of a write before on_disconnect().
THEOREM UsersAreKnown == Spec => []ChatKnowsItsUsers
<1>1. RoomsInv => ChatKnowsItsUsers
  BY UsersFollow
<1> QED
  BY <1>1, RoomsHold, PTL

\* process-client prints in the order of logging and nothing twice, whatever
\* windows it was shown and however many it missed; and all of it while the
\* window was not full.
THEOREM LinesArePrintedOnce == Spec => []PrintsEachLineOnce
<1>1. RoomsInv => PrintsEachLineOnce
  BY PrintsFollow
<1> QED
  BY <1>1, RoomsHold, PTL

\* A client that has read everything, and has a snapshot in the channel since
\* it subscribed, knows the room as it is, however far its receiver lagged:
\* the last snapshot aired is of the room's last change, and a lagging receiver
\* only loses broadcasts that came before it.
THEOREM DrainedKnowTheRoom == Spec => []DrainedClientsAreUpToDate
<1>1. RoomsInv /\ example \in Programs => DrainedClientsAreUpToDate
  BY DrainedFollow, SessionAssumption, ExampleAssumption
<1> QED
  BY <1>1, RoomsHold, ProgramStays, PTL

\* No client is shown an older state after a newer one: neither the first
\* snapshot, taken before the handler subscribes, nor the broadcasts, nor the
\* jump of a receiver that lagged turn the order of the room's changes round.
THEOREM StatesComeInOrder == Spec => ClientsNeverGoBack
<1>1. RoomsInv /\ example \in Programs /\ [Next]_vars => [\A c \in Conns : Latest(heard[c]) <= Latest(heard'[c])]_vars
  BY NeverBack, SessionAssumption, ExampleAssumption
<1> QED
  BY <1>1, RoomsHold, ProgramStays, PTL DEF Spec, ClientsNeverGoBack

=============================================================================
