---------------------------- MODULE StreamsProofs ----------------------------
(***************************************************************************)
(* What Streams promises, proved for every history limit, window, number   *)
(* of messages, intents and PINGs.                                         *)
(*                                                                         *)
(* The argument is the same for Discord, IRC and Signal: what is on its    *)
(* way to the connector was posted after all its window has and comes in   *)
(* the order of posting (Feed).  Slack's socket is opened before the       *)
(* history is fetched, so that its window may have what the socket still   *)
(* brings, but nothing newer than the history (SlackOrder).                *)
(***************************************************************************)
EXTENDS Streams, SequenceLemmas

Kinds == {"message", "other"}

\* The messages among what was posted.
Plain(p) == {n \in DOMAIN p : p[n] = "message"}

\* Stream s, in which 0 is no message, is in order and all after window w.
Follows(w, s) ==
  /\ \A i, j \in 1 .. Len(s) : i < j => s[i] = 0 \/ s[j] = 0 \/ s[i] < s[j]
  /\ \A i \in 1 .. Len(w), j \in 1 .. Len(s) : s[j] = 0 \/ w[i] < s[j]

Feed(p, w, s) ==
  /\ p \in Seq(Kinds) /\ Len(p) <= MaxPosted
  /\ w \in Seq(1 .. Len(p)) /\ Len(w) <= Cap /\ Rises(w)
  /\ s \in Seq(0 .. Len(p))
  /\ Follows(w, s)

\* Where the task stands, and what it has shown.
RoomInv ==
  /\ task \in TaskStates
  /\ queued \in Nat
  /\ shown \in SUBSET Nat

SignalInv ==
  /\ RoomInv
  /\ Feed(posted, window, lines)
  /\ task = "connecting" => window = <<>>
  /\ task # "ended" => Plain(posted) \subseteq shown \cup ToSet(lines)

IrcInv ==
  /\ RoomInv
  /\ Feed(posted, window, lines)
  /\ joinedAt \in 0 .. None
  /\ pings \in Nat /\ ponged \in Nat /\ torn \in Nat
  /\ recv \in {"reading", "ponging"}
  /\ recv = "ponging" => task \in {"receiving", "ended"}
  /\ task = "connecting" => /\ window = <<>> /\ lines = <<>> /\ joinedAt = None
                           /\ pings = 0 /\ ponged = 0 /\ torn = 0
  /\ I!NothingSlipsThrough
  /\ I!PingsAreAccountedFor

DiscordInv ==
  /\ RoomInv
  /\ Feed(posted, window, events)
  /\ fetchedAt \in 0 .. None /\ openedAt \in 0 .. None
  /\ openedAt = None => events = <<>>
  /\ task = "connecting" => window = <<>> /\ openedAt = None
  /\ Live => fetchedAt <= Len(posted)
  /\ D!NothingElseSlipsThrough

\* Slack's socket is in order; what its window has is in the history, or older
\* than what recv() has in hand and what the socket still brings.
SlackOrder(w, s, h, fetched) ==
  /\ \A i, j \in 1 .. Len(s) : i < j => s[i] < s[j]
  /\ \A j \in 1 .. Len(s) : h < s[j]
  /\ \A i \in 1 .. Len(w) : w[i] <= fetched \/ ((h # 0 => w[i] < h) /\ \A j \in 1 .. Len(s) : w[i] < s[j])

SlackTypes ==
  /\ RoomInv
  /\ posted \in Seq(Kinds) /\ Len(posted) <= MaxPosted
  /\ window \in Seq(1 .. Len(posted)) /\ Len(window) <= Cap
  /\ ws \in Seq(1 .. Len(posted))
  /\ hand \in 0 .. Len(posted)
  /\ recv \in {"reading", "acking", "naming"}
  /\ (recv = "reading") <=> (hand = 0)
  /\ recv = "naming" => hand \in Plain(posted)
  /\ acked \in SUBSET Nat /\ cancelled \in SUBSET Nat

\* The socket, then the history, and nothing of the socket before.
SlackConnects ==
  /\ openedAt \in 0 .. Len(posted) \cup {None}
  /\ fetchedAt \in 0 .. Len(posted) \cup {None}
  /\ openedAt = None => ws = <<>> /\ hand = 0 /\ fetchedAt = None
  /\ openedAt # None => openedAt <= fetchedAt
  /\ \A k \in 1 .. Len(ws) : ws[k] > openedAt
  /\ hand # 0 => hand > openedAt
  /\ task = "connecting" => window = <<>> /\ hand = 0
  /\ task = "connecting" /\ openedAt # None => openedAt + 1 .. Len(posted) \subseteq ToSet(ws)
  /\ Live => fetchedAt # None

SlackInv ==
  /\ SlackTypes
  /\ SlackConnects
  /\ SlackOrder(window, ws, hand, fetchedAt)
  /\ S!NothingSlipsThrough
  /\ S!InOrderAfterConnect

WhatsAppInv ==
  /\ RoomInv
  /\ posted \in Seq(Kinds)
  /\ window = <<>> /\ shown = {}

StreamsInv ==
  /\ connector = "slack" => SlackInv
  /\ connector = "discord" => DiscordInv
  /\ connector = "irc" => IrcInv
  /\ connector = "signal" => SignalInv
  /\ connector = "whatsapp" => WhatsAppInv

-----------------------------------------------------------------------------
(* Windows and streams *)

LEMMA PushOneIs == \A w, n : PushOne(w, n) = Pushed(w, n, Cap)
BY DEF PushOne, Pushed

\* Each element of the window is the one pushed or was there.
LEMMA PushOneHas ==
  ASSUME RoomAssumption, NEW N, NEW w \in Seq(N), Len(w) <= Cap, NEW h \in N
  PROVE  /\ PushOne(w, h) \in Seq(N) /\ Len(PushOne(w, h)) <= Cap
         /\ h \in ToSet(PushOne(w, h)) /\ ToSet(PushOne(w, h)) \subseteq N
         /\ \A k \in 1 .. Len(PushOne(w, h)) :
              PushOne(w, h)[k] = h \/ \E l \in 1 .. Len(w) : PushOne(w, h)[k] = w[l]
<1> DEFINE r == Pushed(w, h, Cap)
<1>1. Cap \in Nat \ {0}
  BY DEF RoomAssumption
<1>2. /\ r \in Seq(N) /\ Len(r) \in 1 .. Cap /\ r[Len(r)] = h
      /\ \E o \in {0, 1} : \A i \in 1 .. Len(r) - 1 : i + o \in 1 .. Len(w) /\ r[i] = w[i + o]
  BY <1>1, PushIs
<1>3. h \in ToSet(r)
  BY <1>1, PushHas
<1> HIDE DEF r
<1>4. ToSet(r) \subseteq N
  BY <1>2, ToSetIs
<1>5. \A k \in 1 .. Len(r) : r[k] = h \/ \E l \in 1 .. Len(w) : r[k] = w[l]
  <2>1. \A k \in 1 .. Len(r) : k = Len(r) \/ k \in 1 .. Len(r) - 1
    BY <1>2
  <2>2. r[Len(r)] = h /\ \A k \in 1 .. Len(r) - 1 : \E l \in 1 .. Len(w) : r[k] = w[l]
    BY <1>2
  <2> QED
    BY <2>1, <2>2
<1>6. PushOne(w, h) = r /\ Len(r) <= Cap
  BY <1>1, <1>2, PushOneIs DEF r
<1> QED
  BY <1>2, <1>3, <1>4, <1>5, <1>6

\* A post comes after all the window and the stream have.
LEMMA FeedPosted ==
  ASSUME NEW p, NEW w, NEW s, NEW kind \in Kinds, Feed(p, w, s), Len(p) < MaxPosted, RoomAssumption
  PROVE  /\ Feed(Append(p, kind), w, s)
         /\ Feed(Append(p, kind), w, Append(s, Len(p) + 1))
<1>1. /\ p \in Seq(Kinds) /\ Len(p) \in Nat /\ w \in Seq(1 .. Len(p)) /\ s \in Seq(0 .. Len(p))
      /\ Len(w) <= Cap /\ Rises(w) /\ Follows(w, s)
  BY DEF Feed
<1> DEFINE n == Len(p) + 1
<1>2. n \in Nat /\ Append(p, kind) \in Seq(Kinds) /\ Len(Append(p, kind)) = n /\ n <= MaxPosted
  BY <1>1 DEF Feed, RoomAssumption
<1>3. w \in Seq(1 .. n) /\ s \in Seq(0 .. n)
  <2>1. 1 .. Len(p) \subseteq 1 .. n /\ 0 .. Len(p) \subseteq 0 .. n
    BY <1>1
  <2> QED
    BY <1>1, <2>1, SeqWider
<1>4. Feed(Append(p, kind), w, s)
  BY <1>1, <1>2, <1>3 DEF Feed
<1>5. /\ Append(s, n) \in Seq(0 .. n) /\ Len(Append(s, n)) = Len(s) + 1
      /\ Append(s, n)[Len(s) + 1] = n /\ \A i \in 1 .. Len(s) : Append(s, n)[i] = s[i] /\ s[i] < n
  <2>1. n \in 0 .. n /\ \A i \in 1 .. Len(s) : s[i] \in 0 .. Len(p)
    BY <1>1, <1>2
  <2> QED
    BY <1>1, <1>3, <2>1, AppendProperties
<1>6. Follows(w, Append(s, n))
  <2>1. \A i \in 1 .. Len(w) : w[i] < n
    BY <1>1
  <2>2. \A j \in 1 .. Len(s) + 1 : j \in 1 .. Len(s) \/ j = Len(s) + 1
    BY <1>1
  <2>3. \A i, j \in 1 .. Len(s) + 1 : i < j => i \in 1 .. Len(s)
    BY <1>1
  <2> HIDE DEF n
  <2> QED
    BY <1>1, <1>5, <2>1, <2>2, <2>3 DEF Follows
<1>7. Feed(Append(p, kind), w, Append(s, n))
  <2> HIDE DEF n
  <2> QED
    BY <1>1, <1>2, <1>3, <1>5, <1>6 DEF Feed
<1> QED
  BY <1>4, <1>7

\* A PING does not disturb the order.
LEMMA FeedPinged ==
  ASSUME NEW p, NEW w, NEW s, Feed(p, w, s)
  PROVE  Feed(p, w, Append(s, 0))
<1>1. p \in Seq(Kinds) /\ Len(p) \in Nat /\ s \in Seq(0 .. Len(p)) /\ Follows(w, s)
  BY DEF Feed
<1>2. /\ Append(s, 0) \in Seq(0 .. Len(p)) /\ Len(Append(s, 0)) = Len(s) + 1
      /\ Append(s, 0)[Len(s) + 1] = 0 /\ \A i \in 1 .. Len(s) : Append(s, 0)[i] = s[i]
  <2>1. 0 \in 0 .. Len(p)
    BY <1>1
  <2> QED
    BY <1>1, <2>1, AppendProperties
<1>3. Follows(w, Append(s, 0))
  <2>1. \A j \in 1 .. Len(s) + 1 : j \in 1 .. Len(s) \/ j = Len(s) + 1
    BY <1>1
  <2> QED
    BY <1>1, <1>2, <2>1 DEF Follows
<1> QED
  BY <1>2, <1>3 DEF Feed

\* What is read comes after all the window has, and before the rest of the stream.
LEMMA FeedRead ==
  ASSUME NEW p, NEW w, NEW s, Feed(p, w, s), s # <<>>, RoomAssumption
  PROVE  /\ Feed(p, w, Tail(s))
         /\ Head(s) \in 0 .. Len(p)
         /\ Head(s) # 0 => /\ Feed(p, PushOne(w, Head(s)), Tail(s))
                           /\ Head(s) \in ToSet(PushOne(w, Head(s)))
                           /\ ToSet(PushOne(w, Head(s))) \subseteq Nat
<1>1. /\ p \in Seq(Kinds) /\ Len(p) \in Nat /\ w \in Seq(1 .. Len(p)) /\ s \in Seq(0 .. Len(p))
      /\ Len(w) <= Cap /\ Rises(w) /\ Follows(w, s) /\ Len(p) <= MaxPosted
  BY DEF Feed
<1> DEFINE h == Head(s)
<1>2. /\ Tail(s) \in Seq(0 .. Len(p)) /\ Len(Tail(s)) = Len(s) - 1 /\ Len(s) \in Nat \ {0}
      /\ h = s[1] /\ h \in 0 .. Len(p) /\ \A i \in 1 .. Len(s) - 1 : Tail(s)[i] = s[i + 1]
  BY <1>1, HeadTailProperties
<1>3. \A i \in 1 .. Len(s) - 1 : i + 1 \in 1 .. Len(s) /\ 1 < i + 1
  BY <1>2
<1>4. Follows(w, Tail(s))
  <2>1. \A i, j \in 1 .. Len(s) - 1 : i < j => i + 1 < j + 1
    BY <1>2
  <2> QED
    BY <1>1, <1>2, <1>3, <2>1 DEF Follows
<1>5. Feed(p, w, Tail(s))
  BY <1>1, <1>2, <1>4 DEF Feed
<1>6. ASSUME h # 0
      PROVE  /\ Feed(p, PushOne(w, h), Tail(s))
             /\ h \in ToSet(PushOne(w, h)) /\ ToSet(PushOne(w, h)) \subseteq Nat
  <2> HIDE DEF h
  <2>1. h \in 1 .. Len(p) /\ 1 .. Len(p) \in SUBSET Nat /\ Cap \in Nat \ {0}
    BY <1>1, <1>2, <1>6 DEF RoomAssumption
  <2>2. 1 \in 1 .. Len(s)
    BY <1>2
  <2>3. \A i \in 1 .. Len(w) : w[i] < h
    BY <1>1, <1>2, <1>6, <2>2 DEF Follows
  <2> DEFINE r == PushOne(w, h)
             N == 1 .. Len(p)
  <2>4. w \in Seq(N) /\ h \in N /\ Len(w) <= Cap
    BY <1>1, <2>1
  <2> HIDE DEF N
  <2>5. /\ r \in Seq(N) /\ Len(r) <= Cap /\ h \in ToSet(r) /\ ToSet(r) \subseteq N
        /\ \A k \in 1 .. Len(r) : r[k] = h \/ \E l \in 1 .. Len(w) : r[k] = w[l]
    <3>1. r \in Seq(N) /\ Len(r) <= Cap
      BY <2>4, PushOneHas
    <3>2. h \in ToSet(r) /\ ToSet(r) \subseteq N
      BY <2>4, PushOneHas
    <3>3. \A k \in 1 .. Len(r) : r[k] = h \/ \E l \in 1 .. Len(w) : r[k] = w[l]
      BY <2>4, PushOneHas
    <3> QED
      BY <3>1, <3>2, <3>3
  <2>6. Rises(r)
    BY <1>1, <2>1, <2>3, PushKeepsOrder, PushOneIs
  <2> HIDE DEF r
  <2>7. Follows(r, Tail(s))
    <3>1. \A k \in 1 .. Len(Tail(s)) : Tail(s)[k] = 0 \/ h < Tail(s)[k]
      BY <1>1, <1>2, <1>3, <1>6, <2>2 DEF Follows
    <3> QED
      BY <1>4, <2>5, <3>1 DEF Follows
  <2>8. Feed(p, r, Tail(s))
    BY <1>1, <1>2, <2>5, <2>6, <2>7 DEF Feed, N
  <2> QED
    BY <2>1, <2>5, <2>8 DEF r, N
<1> QED
  BY <1>2, <1>5, <1>6

\* What is put on a stream is there, with what was.
LEMMA OnItsWay ==
  ASSUME NEW p, NEW w, NEW s, Feed(p, w, s)
  PROVE  /\ ToSet(Append(s, Len(p) + 1)) = ToSet(s) \cup {Len(p) + 1}
         /\ ToSet(Append(s, 0)) = ToSet(s) \cup {0}
<1>1. s \in Seq(0 .. Len(p)) /\ Len(p) \in Nat
  BY DEF Feed
<1> DEFINE N == 0 .. Len(p) + 1
<1>2. s \in Seq(N) /\ Len(p) + 1 \in N /\ 0 \in N
  <2>1. 0 .. Len(p) \subseteq N
    BY <1>1
  <2> QED
    BY <1>1, <2>1, SeqWider
<1> HIDE DEF N
<1> QED
  BY <1>2, ToSetAppend

\* A post adds no message but itself.
LEMMA PlainPosted ==
  ASSUME NEW p \in Seq(Kinds), NEW kind \in Kinds
  PROVE  /\ Plain(p) \subseteq 1 .. Len(p)
         /\ Plain(Append(p, kind)) \subseteq Plain(p) \cup {Len(p) + 1}
         /\ Plain(p) \subseteq Plain(Append(p, kind))
<1>1. /\ Append(p, kind) \in Seq(Kinds) /\ Len(Append(p, kind)) = Len(p) + 1
      /\ \A i \in 1 .. Len(p) : Append(p, kind)[i] = p[i]
  BY AppendProperties
<1>2. DOMAIN p = 1 .. Len(p) /\ DOMAIN Append(p, kind) = 1 .. Len(p) + 1
  BY <1>1
<1>3. \A i \in 1 .. Len(p) + 1 : i \in 1 .. Len(p) \/ i = Len(p) + 1
  OBVIOUS
<1>4. \A i \in 1 .. Len(p) : i \in 1 .. Len(p) + 1
  OBVIOUS
<1> QED
  BY <1>1, <1>2, <1>3, <1>4 DEF Plain

-----------------------------------------------------------------------------
(* Signal *)

LEMMA SignalIs ==
  /\ \A s : G!ToSet(s) = ToSet(s)
  /\ \A w, n : G!PushOne(w, n) = PushOne(w, n)
  /\ G!Messages = Plain(posted)
  /\ Messages = Plain(posted)
BY DEF G!ToSet, ToSet, G!PushOne, PushOne, G!Messages, Messages, Plain

LEMMA SignalStarts ==
  ASSUME RoomAssumption, Init PROVE SignalInv
<1>1. posted = <<>> /\ window = <<>> /\ lines = <<>> /\ shown = {} /\ task = "connecting" /\ queued = 0
  BY DEF Init, I!Init, I!RoomInit
<1>2. Plain(<<>>) = {}
  BY DEF Plain
<1>3. Feed(<<>>, <<>>, <<>>)
  BY DEF Feed, Rises, Follows, RoomAssumption
<1> QED
  BY <1>1, <1>2, <1>3 DEF SignalInv, RoomInv, TaskStates

LEMMA SignalSteps ==
  ASSUME RoomAssumption, SignalInv, G!Next PROVE SignalInv'
<1> USE DEF TaskStates
<1>1. /\ RoomInv /\ Feed(posted, window, lines)
      /\ posted \in Seq(Kinds) /\ Len(posted) \in Nat /\ lines \in Seq(0 .. Len(posted))
      /\ task = "connecting" => window = <<>>
      /\ task # "ended" => Plain(posted) \subseteq shown \cup ToSet(lines)
  BY DEF SignalInv, Feed
<1>2. ASSUME NEW kind \in Kinds, G!SignalPost(kind)
      PROVE  SignalInv'
  <2>1. /\ posted' = Append(posted, kind) /\ Len(posted) < MaxPosted
        /\ UNCHANGED <<task, queued, window, shown>>
        /\ lines' = IF task = "ended" THEN lines ELSE Append(lines, Len(posted) + 1)
    BY <1>2 DEF G!SignalPost, G!Post, G!taskVars
  <2>2. Feed(posted', window', lines')
    BY <1>1, <2>1, FeedPosted
  <2>3. ASSUME task # "ended"
        PROVE  Plain(posted') \subseteq shown \cup ToSet(lines')
    <3>1. Plain(posted') \subseteq Plain(posted) \cup {Len(posted) + 1}
      BY <1>1, <2>1, PlainPosted
    <3>2. ToSet(lines') = ToSet(lines) \cup {Len(posted) + 1}
      BY <1>1, <2>1, <2>3, OnItsWay
    <3> QED
      BY <1>1, <2>3, <3>1, <3>2
  <2> QED
    BY <1>1, <2>1, <2>2, <2>3 DEF SignalInv, RoomInv
<1>3. CASE G!Spawn
  <2>1. /\ task = "connecting" /\ task' = "receiving" /\ UNCHANGED <<queued, posted, lines>>
        /\ window' = <<>> /\ shown' = shown \cup ToSet(<<>>)
    BY <1>3, SignalIs DEF G!Spawn, G!Connected, G!Show
  <2>2. ToSet(<<>>) = {}
    BY DEF ToSet
  <2> QED
    BY <1>1, <2>1, <2>2 DEF SignalInv, RoomInv
<1>4. CASE G!ReadLine
  <2>1. /\ task = "receiving" /\ lines # <<>> /\ lines' = Tail(lines) /\ UNCHANGED <<task, queued, posted>>
        /\ IF Head(lines) \in Plain(posted)
             THEN /\ window' = PushOne(window, Head(lines))
                  /\ shown' = shown \cup ToSet(PushOne(window, Head(lines)))
             ELSE UNCHANGED <<window, shown>>
    BY <1>4, SignalIs DEF G!ReadLine, G!Show, G!taskVars
  <2>2. /\ Feed(posted, window, Tail(lines))
        /\ Head(lines) # 0 => /\ Feed(posted, PushOne(window, Head(lines)), Tail(lines))
                              /\ Head(lines) \in ToSet(PushOne(window, Head(lines)))
                              /\ ToSet(PushOne(window, Head(lines))) \subseteq Nat
    BY <1>1, <2>1, FeedRead
  <2>3. ToSet(lines) = ToSet(Tail(lines)) \cup {Head(lines)}
    BY <1>1, <2>1, ToSetTail
  <2>4. CASE Head(lines) \in Plain(posted)
    <3>1. Head(lines) # 0
      BY <1>1, <2>4, PlainPosted DEF Kinds
    <3> QED
      BY <1>1, <2>1, <2>2, <2>3, <2>4, <3>1 DEF SignalInv, RoomInv
  <2>5. CASE Head(lines) \notin Plain(posted)
    BY <1>1, <2>1, <2>2, <2>3, <2>5 DEF SignalInv, RoomInv
  <2> QED
    BY <2>4, <2>5
<1>5. CASE G!Cancel \/ ((G!SubmitIntent \/ G!SendReturns \/ G!TaskEnds) /\ UNCHANGED lines)
  <2>1. /\ UNCHANGED <<posted, window, shown, lines>>
        /\ task' \in TaskStates \ {"connecting"} /\ queued' \in Nat
        /\ task = "ended" => task' = "ended"
    BY <1>1, <1>5
       DEF RoomInv, G!Cancel, G!TakeIntent, G!SubmitIntent, G!SendReturns, G!TaskEnds, G!feedVars, G!Live
  <2> QED
    BY <1>1, <2>1 DEF SignalInv, RoomInv
<1> QED
  BY <1>2, <1>3, <1>4, <1>5 DEF G!Next, Kinds

-----------------------------------------------------------------------------
(* IRC *)

\* Where a stream has a PING.
Zeros(s) == {i \in DOMAIN s : s[i] = 0}

LEMMA ZerosCounted ==
  ASSUME NEW s \in Seq(Nat)
  PROVE  /\ IsFiniteSet(Zeros(s)) /\ Cardinality(Zeros(s)) \in Nat
         /\ \A x \in Nat : Cardinality(Zeros(Append(s, x))) =
                            Cardinality(Zeros(s)) + (IF x = 0 THEN 1 ELSE 0)
<1>1. DOMAIN s = 1 .. Len(s) /\ Zeros(s) \subseteq 1 .. Len(s) /\ Len(s) \in Nat
  BY DEF Zeros
<1>2. IsFiniteSet(1 .. Len(s))
  BY FS_Interval, <1>1
<1>3. IsFiniteSet(Zeros(s)) /\ Cardinality(Zeros(s)) \in Nat
  BY <1>1, <1>2, FS_Subset, FS_CardinalityType
<1>4. ASSUME NEW x \in Nat
      PROVE  Cardinality(Zeros(Append(s, x))) = Cardinality(Zeros(s)) + (IF x = 0 THEN 1 ELSE 0)
  <2>1. /\ Append(s, x) \in Seq(Nat) /\ Len(Append(s, x)) = Len(s) + 1
        /\ Append(s, x)[Len(s) + 1] = x /\ \A i \in 1 .. Len(s) : Append(s, x)[i] = s[i]
    BY AppendProperties
  <2>2. /\ DOMAIN Append(s, x) = 1 .. Len(s) + 1
        /\ \A i \in 1 .. Len(s) + 1 : i \in 1 .. Len(s) \/ i = Len(s) + 1
        /\ \A i \in 1 .. Len(s) : i \in 1 .. Len(s) + 1
        /\ Len(s) + 1 \notin 1 .. Len(s) /\ Len(s) + 1 \in 1 .. Len(s) + 1
    BY <1>1, <2>1
  <2>3. Zeros(Append(s, x)) = IF x = 0 THEN Zeros(s) \cup {Len(s) + 1} ELSE Zeros(s)
    BY <1>1, <2>1, <2>2 DEF Zeros
  <2>4. Len(s) + 1 \notin Zeros(s)
    BY <1>1, <2>2
  <2> QED
    <3>1. Cardinality(Zeros(s) \cup {Len(s) + 1}) = Cardinality(Zeros(s)) + 1
      BY <1>3, <2>4, FS_AddElement
    <3> QED
      BY <1>3, <2>3, <3>1
<1> QED
  BY <1>3, <1>4

LEMMA ZerosOfTail ==
  ASSUME NEW s \in Seq(Nat), s # <<>>
  PROVE  Cardinality(Zeros(s)) = Cardinality(Zeros(Tail(s))) + (IF Head(s) = 0 THEN 1 ELSE 0)
<1>1. /\ Tail(s) \in Seq(Nat) /\ Len(Tail(s)) = Len(s) - 1 /\ Len(s) \in Nat \ {0}
      /\ Head(s) = s[1] /\ \A i \in 1 .. Len(s) - 1 : Tail(s)[i] = s[i + 1]
  BY HeadTailProperties
<1>2. DOMAIN s = 1 .. Len(s) /\ DOMAIN Tail(s) = 1 .. Len(s) - 1
  BY <1>1
<1>3. IsFiniteSet(Zeros(s)) /\ IsFiniteSet(Zeros(Tail(s)))
  BY <1>1, ZerosCounted
<1> DEFINE Rest == Zeros(s) \ {1}
           f == [i \in Zeros(Tail(s)) |-> i + 1]
<1>4. f \in Bijection(Zeros(Tail(s)), Rest)
  <2>1. ASSUME NEW i \in Zeros(Tail(s))
        PROVE  f[i] = i + 1 /\ i \in Nat /\ f[i] \in Rest
    <3>1. i \in 1 .. Len(s) - 1 /\ Tail(s)[i] = 0
      BY <1>2 DEF Zeros
    <3>2. i + 1 \in 1 .. Len(s) /\ s[i + 1] = 0 /\ i + 1 # 1
      BY <1>1, <3>1
    <3> QED
      BY <1>2, <3>1, <3>2 DEF Zeros
  <2>2. ASSUME NEW k \in Rest
        PROVE  \E i \in Zeros(Tail(s)) : f[i] = k
    <3>1. k \in 1 .. Len(s) /\ s[k] = 0 /\ k # 1
      BY <1>2 DEF Zeros
    <3>2. k - 1 \in 1 .. Len(s) - 1 /\ (k - 1) + 1 = k
      BY <1>1, <3>1
    <3>3. k - 1 \in Zeros(Tail(s))
      BY <1>1, <1>2, <3>1, <3>2 DEF Zeros
    <3> QED
      BY <3>2, <3>3
  <2>3. f \in [Zeros(Tail(s)) -> Rest]
    BY <2>1
  <2>4. \A i, j \in Zeros(Tail(s)) : f[i] = f[j] => i = j
    BY <2>1
  <2> HIDE DEF f
  <2> QED
    BY <2>2, <2>3, <2>4 DEF Bijection, Injection, Surjection, IsInjective
<1>5. Cardinality(Rest) = Cardinality(Zeros(Tail(s)))
  BY <1>3, <1>4, FS_Bijection DEF ExistsBijection
<1>6. 1 \in Zeros(s) <=> Head(s) = 0
  BY <1>1, <1>2 DEF Zeros
<1>7. Cardinality(Rest) = IF 1 \in Zeros(s) THEN Cardinality(Zeros(s)) - 1 ELSE Cardinality(Zeros(s))
  BY <1>3, FS_RemoveElement
<1>8. Cardinality(Zeros(s)) \in Nat
  BY ZerosCounted
<1> QED
  BY <1>5, <1>6, <1>7, <1>8

LEMMA IrcIs ==
  /\ \A s : I!ToSet(s) = ToSet(s)
  /\ \A w, n : I!PushOne(w, n) = PushOne(w, n)
  /\ I!Messages = Plain(posted)
  /\ I!Live <=> Live
  /\ I!NothingSlipsThrough <=>
       (Live => Plain(posted) \cap joinedAt + 1 .. Len(posted) \subseteq shown \cup ToSet(lines))
  /\ I!PingsAreAccountedFor <=>
       (Live => pings = ponged + torn + Cardinality(Zeros(lines)) + (IF recv = "ponging" THEN 1 ELSE 0))
<1>1. \A s : I!ToSet(s) = ToSet(s)
  BY DEF I!ToSet, ToSet
<1>2. \A w, n : I!PushOne(w, n) = PushOne(w, n)
  BY DEF I!PushOne, PushOne
<1>3. I!Messages = Plain(posted)
  BY DEF I!Messages, Plain
<1>4. I!Live <=> Live
  BY DEF I!Live, Live
<1>5. Zeros(lines) = {i \in DOMAIN lines : lines[i] = I!Ping}
  BY DEF Zeros, I!Ping
<1>6. \A A : I!Cardinality(A) = Cardinality(A)
  BY DEF I!Cardinality, Cardinality, I!IsFiniteSet, IsFiniteSet
<1>7. I!Cardinality({i \in DOMAIN lines : lines[i] = I!Ping}) = Cardinality(Zeros(lines))
  BY <1>5, <1>6
<1>8. I!NothingSlipsThrough <=>
        (Live => Plain(posted) \cap joinedAt + 1 .. Len(posted) \subseteq shown \cup ToSet(lines))
  BY <1>1, <1>3, <1>4 DEF I!NothingSlipsThrough
<1>9. I!PingsAreAccountedFor <=>
        (Live => pings = ponged + torn + Cardinality(Zeros(lines)) + (IF recv = "ponging" THEN 1 ELSE 0))
  BY <1>4, <1>7 DEF I!PingsAreAccountedFor
<1> QED
  BY <1>1, <1>2, <1>3, <1>4, <1>8, <1>9

LEMMA IrcStarts ==
  ASSUME RoomAssumption, Init PROVE IrcInv
<1>1. /\ posted = <<>> /\ window = <<>> /\ lines = <<>> /\ shown = {} /\ task = "connecting" /\ queued = 0
      /\ joinedAt = None /\ pings = 0 /\ ponged = 0 /\ torn = 0 /\ recv = "reading"
  BY DEF Init, I!Init, I!RoomInit, I!None, None
<1>2. Feed(<<>>, <<>>, <<>>)
  BY DEF Feed, Rises, Follows, RoomAssumption
<1>3. ~ Live
  BY <1>1 DEF Live
<1> QED
  BY <1>1, <1>2, <1>3, IrcIs DEF IrcInv, RoomInv, TaskStates, None, RoomAssumption

LEMMA IrcSteps ==
  ASSUME RoomAssumption, IrcInv, I!Next PROVE IrcInv'
<1> USE DEF TaskStates
<1> DEFINE Counted == Cardinality(Zeros(lines))
           Ponging == IF recv = "ponging" THEN 1 ELSE 0
<1>1. /\ RoomInv /\ Feed(posted, window, lines)
      /\ posted \in Seq(Kinds) /\ Len(posted) \in Nat /\ Len(posted) <= MaxPosted
      /\ lines \in Seq(0 .. Len(posted)) /\ lines \in Seq(Nat)
  <2>1. /\ RoomInv /\ Feed(posted, window, lines)
        /\ posted \in Seq(Kinds) /\ Len(posted) \in Nat /\ Len(posted) <= MaxPosted
        /\ lines \in Seq(0 .. Len(posted))
    BY DEF IrcInv, Feed
  <2>2. 0 .. Len(posted) \subseteq Nat
    BY <2>1
  <2> QED
    BY <2>1, <2>2, SeqWider
<1>2. /\ joinedAt \in 0 .. None
      /\ pings \in Nat /\ ponged \in Nat /\ torn \in Nat
      /\ recv \in {"reading", "ponging"}
      /\ recv = "ponging" => task \in {"receiving", "ended"}
      /\ task = "connecting" => /\ window = <<>> /\ lines = <<>> /\ joinedAt = None
                               /\ pings = 0 /\ ponged = 0 /\ torn = 0
  BY DEF IrcInv
<1>3. Live => Plain(posted) \cap joinedAt + 1 .. Len(posted) \subseteq shown \cup ToSet(lines)
  BY IrcIs DEF IrcInv
<1>4. Live => pings = ponged + torn + Counted + Ponging
  BY IrcIs DEF IrcInv
<1>5. ASSUME RoomInv', Feed(posted, window, lines)', joinedAt' \in 0 .. None,
             pings' \in Nat, ponged' \in Nat, torn' \in Nat, recv' \in {"reading", "ponging"},
             recv' = "ponging" => task' \in {"receiving", "ended"},
             task' = "connecting" => /\ window' = <<>> /\ lines' = <<>> /\ joinedAt' = None
                                     /\ pings' = 0 /\ ponged' = 0 /\ torn' = 0,
             Live' => Plain(posted') \cap joinedAt' + 1 .. Len(posted') \subseteq shown' \cup ToSet(lines'),
             Live' => pings' = ponged' + torn' + Counted' + Ponging'
      PROVE  IrcInv'
  <2>1. (I!NothingSlipsThrough <=>
          (Live => Plain(posted) \cap joinedAt + 1 .. Len(posted) \subseteq shown \cup ToSet(lines)))'
    BY IrcIs, PTL
  <2>2. (I!PingsAreAccountedFor <=> (Live => pings = ponged + torn + Counted + Ponging))'
    BY IrcIs, PTL
  <2> QED
    BY <1>5, <2>1, <2>2 DEF IrcInv, None
<1>6. Counted \in Nat /\ \A x \in Nat :
        Cardinality(Zeros(Append(lines, x))) = Counted + (IF x = 0 THEN 1 ELSE 0)
  BY <1>1, ZerosCounted
<1> HIDE DEF Counted
<1>7. ASSUME NEW kind \in Kinds, I!IrcPost(kind)
      PROVE  IrcInv'
  <2>1. /\ posted' = Append(posted, kind) /\ Len(posted) < MaxPosted
        /\ UNCHANGED <<task, queued, window, shown, joinedAt, recv, pings, ponged, torn>>
        /\ lines' = IF Live /\ joinedAt # None THEN Append(lines, Len(posted) + 1) ELSE lines
    BY <1>7, IrcIs DEF I!IrcPost, I!Post, I!taskVars, I!None, None
  <2>2. Feed(posted', window', lines')
    BY <1>1, <2>1, FeedPosted
  <2>3. /\ Plain(posted') \subseteq Plain(posted) \cup {Len(posted) + 1}
        /\ Len(posted') = Len(posted) + 1
        /\ Plain(posted) \subseteq 1 .. Len(posted)
    BY <1>1, <2>1, PlainPosted, AppendProperties
  <2>4. ToSet(Append(lines, Len(posted) + 1)) = ToSet(lines) \cup {Len(posted) + 1}
    BY <1>1, OnItsWay
  <2>5. ASSUME Live, joinedAt # None
        PROVE  Plain(posted') \cap joinedAt + 1 .. Len(posted') \subseteq shown \cup ToSet(lines')
    <3>1. Plain(posted') \cap joinedAt + 1 .. Len(posted') \subseteq
            (Plain(posted) \cap joinedAt + 1 .. Len(posted)) \cup {Len(posted) + 1}
      BY <1>1, <1>2, <2>3 DEF None, RoomAssumption
    <3> QED
      BY <1>3, <2>1, <2>4, <2>5, <3>1
  <2>6. ASSUME Live, joinedAt = None
        PROVE  Plain(posted') \cap joinedAt + 1 .. Len(posted') \subseteq shown \cup ToSet(lines')
    BY <1>1, <2>1, <2>3, <2>6 DEF None, RoomAssumption
  <2>7. ASSUME Live
        PROVE  Cardinality(Zeros(lines')) = Counted
    <3>1. Len(posted) + 1 \in Nat /\ Len(posted) + 1 # 0
      BY <1>1
    <3>2. Cardinality(Zeros(Append(lines, Len(posted) + 1))) = Counted
      BY <1>6, <3>1
    <3> QED
      BY <2>1, <3>2 DEF Counted
  <2>8. (Live' <=> Live) /\ Ponging' = Ponging
    BY <2>1 DEF Live
  <2>9. task' = "connecting" => lines' = <<>> /\ window' = <<>> /\ joinedAt' = None
    BY <1>2, <2>1 DEF Live
  <2>10. Live' => pings' = ponged' + torn' + Counted' + Ponging'
    BY <1>4, <2>1, <2>7, <2>8 DEF Counted
  <2>11. RoomInv'
    BY <1>1, <2>1 DEF RoomInv
  <2> QED
    BY <1>2, <1>5, <2>1, <2>2, <2>5, <2>6, <2>8, <2>9, <2>10, <2>11
<1>8. CASE I!Join
  <2>1. /\ task = "connecting" /\ task' = "receiving" /\ window' = <<>> /\ shown' = shown \cup ToSet(<<>>)
        /\ UNCHANGED <<queued, posted, joinedAt, lines, recv, pings, ponged, torn>>
    BY <1>8, IrcIs DEF I!Join, I!Connected, I!Show, I!ircVars
  <2>2. RoomInv'
    <3>1. ToSet(<<>>) = {}
      BY DEF ToSet
    <3> QED
      BY <1>1, <2>1, <3>1 DEF RoomInv
  <2>3. Counted = 0
    <3>1. Zeros(<<>>) = {}
      BY DEF Zeros
    <3> QED
      BY <1>2, <2>1, <3>1, FS_EmptySet DEF Counted
  <2>4. Plain(posted') \cap joinedAt' + 1 .. Len(posted') = {}
    BY <1>1, <1>2, <2>1 DEF None, RoomAssumption
  <2>5. recv' = "reading" /\ Counted' = Counted
    BY <1>2, <2>1 DEF Counted
  <2> QED
    BY <1>1, <1>2, <1>5, <2>1, <2>2, <2>3, <2>4, <2>5
<1>9. CASE I!Joined
  <2>1. /\ joinedAt' = Len(posted) /\ Live
        /\ UNCHANGED <<task, queued, window, shown, posted, lines, recv, pings, ponged, torn>>
    BY <1>9, IrcIs DEF I!Joined, I!taskVars, I!feedVars
  <2>2. RoomInv' /\ (Live' <=> Live) /\ Counted' = Counted /\ joinedAt' \in 0 .. None
    BY <1>1, <2>1 DEF RoomInv, Live, Counted, None, RoomAssumption
  <2>3. Plain(posted') \cap joinedAt' + 1 .. Len(posted') = {}
    BY <1>1, <2>1
  <2> QED
    BY <1>1, <1>2, <1>4, <1>5, <2>1, <2>2, <2>3 DEF Live
<1>10. CASE I!ServerPings
  <2>1. /\ pings' = pings + 1 /\ lines' = Append(lines, 0) /\ Live
        /\ UNCHANGED <<task, queued, window, shown, posted, joinedAt, recv, ponged, torn>>
    BY <1>10, IrcIs DEF I!ServerPings, I!taskVars, I!feedVars, I!Ping
  <2>2. RoomInv' /\ (Live' <=> Live) /\ Counted' = Counted + 1 /\ Ponging' = Ponging
    BY <1>1, <1>6, <2>1 DEF RoomInv, Live, Counted
  <2>3. Feed(posted, window, Append(lines, 0)) /\ ToSet(Append(lines, 0)) = ToSet(lines) \cup {0}
    BY <1>1, FeedPinged, OnItsWay
  <2>4. Feed(posted, window, lines)'
    BY <2>1, <2>3
  <2>5. Live' => Plain(posted') \cap joinedAt' + 1 .. Len(posted') \subseteq shown' \cup ToSet(lines')
    BY <1>3, <2>1, <2>2, <2>3
  <2>6. Live' => pings' = ponged' + torn' + Counted' + Ponging'
    BY <1>2, <1>4, <1>6, <2>1, <2>2
  <2> QED
    BY <1>2, <1>5, <2>1, <2>2, <2>4, <2>5, <2>6 DEF Live
<1>11. CASE I!ReadLine
  <2>1. /\ task = "receiving" /\ recv = "reading" /\ lines # <<>> /\ lines' = Tail(lines)
        /\ UNCHANGED <<task, queued, posted, joinedAt, pings, ponged, torn>>
        /\ recv' = IF Head(lines) = 0 THEN "ponging" ELSE "reading"
        /\ IF Head(lines) \in Plain(posted)
             THEN /\ window' = PushOne(window, Head(lines))
                  /\ shown' = shown \cup ToSet(PushOne(window, Head(lines)))
             ELSE UNCHANGED <<window, shown>>
    BY <1>11, IrcIs DEF I!ReadLine, I!Show, I!taskVars, I!Ping
  <2>2. /\ Feed(posted, window, Tail(lines))
        /\ Head(lines) # 0 => /\ Feed(posted, PushOne(window, Head(lines)), Tail(lines))
                              /\ Head(lines) \in ToSet(PushOne(window, Head(lines)))
                              /\ ToSet(PushOne(window, Head(lines))) \subseteq Nat
    BY <1>1, <2>1, FeedRead
  <2>3. ToSet(lines) = ToSet(Tail(lines)) \cup {Head(lines)}
    BY <1>1, <2>1, ToSetTail
  <2>4. Live /\ Live' /\ Ponging = 0 /\ Ponging' = IF Head(lines) = 0 THEN 1 ELSE 0
    BY <2>1 DEF Live
  <2>5. Counted = Counted' + Ponging' /\ Counted' \in Nat
    <3>1. Tail(lines) \in Seq(Nat)
      BY <1>1, <2>1
    <3>2. Counted = Cardinality(Zeros(Tail(lines))) + (IF Head(lines) = 0 THEN 1 ELSE 0)
      BY <1>1, <2>1, ZerosOfTail DEF Counted
    <3>3. Counted' = Cardinality(Zeros(Tail(lines))) /\ Cardinality(Zeros(Tail(lines))) \in Nat
      BY <2>1, <3>1, ZerosCounted DEF Counted
    <3> QED
      BY <2>4, <3>2, <3>3
  <2>6. Head(lines) \in Plain(posted) => Head(lines) # 0
    BY <1>1, PlainPosted DEF Kinds
  <2>7. Feed(posted, window, lines)' /\ RoomInv'
    BY <1>1, <2>1, <2>2, <2>6 DEF RoomInv
  <2>8. Plain(posted') \cap joinedAt' + 1 .. Len(posted') \subseteq shown' \cup ToSet(lines')
    BY <1>3, <2>1, <2>2, <2>3, <2>4, <2>6
  <2>9. pings' = ponged' + torn' + Counted' + Ponging'
    BY <1>2, <1>4, <2>1, <2>4, <2>5
  <2> QED
    BY <1>2, <1>5, <2>1, <2>7, <2>8, <2>9
<1>12. CASE I!Pong
  <2>1. /\ task = "receiving" /\ recv = "ponging" /\ ponged' = ponged + 1 /\ recv' = "reading"
        /\ UNCHANGED <<task, queued, posted, window, shown, joinedAt, lines, pings, torn>>
    BY <1>12 DEF I!Pong, I!taskVars, I!feedVars
  <2>2. RoomInv' /\ Live /\ Live' /\ Counted' = Counted /\ Ponging = 1 /\ Ponging' = 0
    BY <1>1, <2>1 DEF RoomInv, Live, Counted
  <2>3. pings' = ponged' + torn' + Counted' + Ponging'
    BY <1>2, <1>4, <1>6, <2>1, <2>2
  <2> QED
    BY <1>1, <1>2, <1>3, <1>5, <2>1, <2>2, <2>3
<1>13. CASE I!Cancel
  <2>1. /\ task = "receiving" /\ task' \in {"sending", "receiving"} /\ queued > 0 /\ queued' = queued - 1
        /\ torn' = (IF recv = "ponging" THEN torn + 1 ELSE torn) /\ recv' = "reading"
        /\ UNCHANGED <<posted, window, shown, joinedAt, lines, pings, ponged>>
    BY <1>13 DEF I!Cancel, I!TakeIntent, I!feedVars
  <2>2. RoomInv' /\ Live /\ Live' /\ Counted' = Counted /\ Ponging' = 0 /\ torn' = torn + Ponging
    BY <1>1, <1>2, <2>1 DEF RoomInv, Live, Counted
  <2>3. pings' = ponged' + torn' + Counted' + Ponging'
    BY <1>2, <1>4, <1>6, <2>1, <2>2
  <2>4. torn' \in Nat
    BY <1>2, <2>1
  <2> QED
    BY <1>1, <1>2, <1>3, <1>5, <2>1, <2>2, <2>3, <2>4
<1>14. CASE (I!SubmitIntent \/ I!SendReturns \/ I!TaskEnds) /\ UNCHANGED I!ircVars
  <2>1. /\ UNCHANGED <<posted, window, shown, joinedAt, lines, recv, pings, ponged, torn>>
        /\ task' \in TaskStates \ {"connecting"} /\ queued' \in Nat
        /\ Live' => Live
        /\ recv = "ponging" => task' \in {"receiving", "ended"}
    BY <1>1, <1>2, <1>14, IrcIs
       DEF RoomInv, I!SubmitIntent, I!SendReturns, I!TaskEnds, I!feedVars, I!ircVars, Live
  <2>2. RoomInv' /\ Counted' = Counted /\ Ponging' = Ponging
    BY <1>1, <2>1 DEF RoomInv, Counted
  <2> QED
    BY <1>1, <1>2, <1>3, <1>4, <1>5, <2>1, <2>2
<1> QED
  BY <1>7, <1>8, <1>9, <1>10, <1>11, <1>12, <1>13, <1>14 DEF I!Next, Kinds

-----------------------------------------------------------------------------
(* Discord *)

\* What a history fetched after f posts lacks.
Hidden(p, f) == {n \in 1 .. f : Cardinality(Plain(p) \cap n + 1 .. f) >= HistoryLimit}

LEMMA DiscordIs ==
  /\ \A s : D!ToSet(s) = ToSet(s)
  /\ \A w, n : D!PushOne(w, n) = PushOne(w, n)
  /\ D!Messages = Plain(posted)
  /\ D!Live <=> Live
  /\ \A m, n : D!PlainFrom(m, n) = InOrder(Plain(posted) \cap m .. n)
  /\ \A s, k : D!Newest(s, k) = LastOnes(s, k)
  /\ D!NothingElseSlipsThrough <=>
       (Live => Plain(posted) \subseteq
                  Hidden(posted, fetchedAt) \cup shown \cup ToSet(events) \cup fetchedAt + 1 .. openedAt)
<1>1. \A s : D!ToSet(s) = ToSet(s)
  BY DEF D!ToSet, ToSet
<1>2. \A w, n : D!PushOne(w, n) = PushOne(w, n)
  BY DEF D!PushOne, PushOne
<1>3. D!Messages = Plain(posted)
  BY DEF D!Messages, Plain
<1>4. D!Live <=> Live
  BY DEF D!Live, Live
<1>5. \A A : D!Cardinality(A) = Cardinality(A)
  BY DEF D!Cardinality, Cardinality, D!IsFiniteSet, IsFiniteSet
<1>6. \A m, n : D!PlainFrom(m, n) = InOrder(Plain(posted) \cap m .. n)
  BY <1>3, <1>5 DEF D!PlainFrom, D!Sorted, InOrder
<1>7. \A s, k : D!Newest(s, k) = LastOnes(s, k)
  BY DEF D!Newest, D!Lower, LastOnes
<1>8. D!TooOld = Hidden(posted, fetchedAt)
  BY <1>3, <1>5 DEF D!TooOld, Hidden
<1> QED
  BY <1>1, <1>2, <1>3, <1>4, <1>6, <1>7, <1>8 DEF D!NothingElseSlipsThrough

\* What is posted later does not change what the history lacks.
LEMMA HiddenPosted ==
  ASSUME NEW p \in Seq(Kinds), NEW kind \in Kinds, NEW f \in 0 .. Len(p)
  PROVE  Hidden(Append(p, kind), f) = Hidden(p, f)
<1>1. \A n : n + 1 .. f \subseteq Int /\ Len(p) + 1 \notin n + 1 .. f
  OBVIOUS
<1>2. \A n : Plain(Append(p, kind)) \cap n + 1 .. f = Plain(p) \cap n + 1 .. f
  BY <1>1, PlainPosted
<1> QED
  BY <1>2 DEF Hidden

LEMMA DiscordStarts ==
  ASSUME RoomAssumption, Init PROVE DiscordInv
<1>1. /\ posted = <<>> /\ window = <<>> /\ events = <<>> /\ shown = {} /\ task = "connecting" /\ queued = 0
      /\ fetchedAt = None /\ openedAt = None
  BY DEF Init, D!Init, D!RoomInit, D!None, None
<1>2. Feed(<<>>, <<>>, <<>>)
  BY DEF Feed, Rises, Follows, RoomAssumption
<1>3. ~ Live
  BY <1>1 DEF Live
<1> QED
  BY <1>1, <1>2, <1>3, DiscordIs DEF DiscordInv, RoomInv, TaskStates, None, RoomAssumption

LEMMA DiscordSteps ==
  ASSUME RoomAssumption, DiscordInv, D!Next PROVE DiscordInv'
<1> USE DEF TaskStates
<1> DEFINE Safe == Hidden(posted, fetchedAt) \cup shown \cup ToSet(events) \cup fetchedAt + 1 .. openedAt
<1>1. /\ RoomInv /\ Feed(posted, window, events)
      /\ posted \in Seq(Kinds) /\ Len(posted) \in Nat /\ Len(posted) <= MaxPosted
      /\ events \in Seq(0 .. Len(posted))
      /\ Plain(posted) \subseteq 1 .. Len(posted)
  BY PlainPosted DEF DiscordInv, Feed, Kinds
<1>2. /\ fetchedAt \in 0 .. None /\ openedAt \in 0 .. None
      /\ openedAt = None => events = <<>>
      /\ task = "connecting" => window = <<>> /\ openedAt = None
      /\ Live => fetchedAt <= Len(posted)
  BY DEF DiscordInv
<1>3. Live => Plain(posted) \subseteq Safe
  BY DiscordIs DEF DiscordInv
<1>4. ASSUME RoomInv', Feed(posted, window, events)',
             fetchedAt' \in 0 .. None, openedAt' \in 0 .. None,
             openedAt' = None => events' = <<>>,
             task' = "connecting" => window' = <<>> /\ openedAt' = None,
             Live' => fetchedAt' <= Len(posted') /\ Plain(posted') \subseteq Safe'
      PROVE  DiscordInv'
  <2>1. (D!NothingElseSlipsThrough <=> (Live => Plain(posted) \subseteq Safe))'
    BY DiscordIs, PTL
  <2> QED
    BY <1>4, <2>1 DEF DiscordInv, None
<1>5. ASSUME NEW kind \in Kinds, D!DiscordPost(kind)
      PROVE  DiscordInv'
  <2>1. /\ posted' = Append(posted, kind) /\ Len(posted) < MaxPosted
        /\ UNCHANGED <<task, queued, window, shown, fetchedAt, openedAt>>
        /\ events' = IF openedAt # None /\ task # "ended" THEN Append(events, Len(posted) + 1) ELSE events
    BY <1>5 DEF D!DiscordPost, D!Post, D!taskVars, D!None, None
  <2>2. Feed(posted', window', events')
    BY <1>1, <2>1, FeedPosted
  <2>3. /\ Plain(posted') \subseteq Plain(posted) \cup {Len(posted) + 1}
        /\ Len(posted') = Len(posted) + 1
    BY <1>1, <2>1, PlainPosted, AppendProperties
  <2>4. ToSet(Append(events, Len(posted) + 1)) = ToSet(events) \cup {Len(posted) + 1}
    BY <1>1, OnItsWay
  <2>5. ASSUME Live
        PROVE  fetchedAt' <= Len(posted') /\ Plain(posted') \subseteq Safe'
    <3>1. fetchedAt \in 0 .. Len(posted)
      BY <1>1, <1>2, <2>5 DEF None, RoomAssumption
    <3>2. Hidden(posted', fetchedAt') = Hidden(posted, fetchedAt)
      BY <1>1, <2>1, <3>1, HiddenPosted
    <3>3. CASE openedAt # None
      <4>1. ToSet(events') = ToSet(events) \cup {Len(posted) + 1}
        BY <2>1, <2>4, <2>5, <3>3 DEF Live
      <4> QED
        BY <1>1, <1>3, <2>1, <2>3, <2>5, <3>1, <3>2, <4>1
    <3>4. CASE openedAt = None
      <4>1. Len(posted) + 1 \in fetchedAt + 1 .. openedAt
        BY <1>1, <2>1, <3>1, <3>4 DEF None, RoomAssumption
      <4> QED
        BY <1>1, <1>3, <2>1, <2>3, <2>5, <3>1, <3>2, <3>4, <4>1
    <3> QED
      BY <3>3, <3>4
  <2> QED
    BY <1>1, <1>2, <1>4, <2>1, <2>2, <2>5 DEF RoomInv, Live
<1>6. CASE D!Connect
  <2> DEFINE n == Len(posted)
             A == Plain(posted) \cap 1 .. n
             w == LastOnes(InOrder(A), HistoryLimit)
  <2>1. /\ task = "connecting" /\ task' = "receiving" /\ UNCHANGED <<queued, posted, openedAt, events>>
        /\ window' = w /\ shown' = shown \cup ToSet(w) /\ fetchedAt' = n
    BY <1>6, DiscordIs DEF D!Connect, D!Connected, D!Show
  <2>2. A = Plain(posted) /\ A \in SUBSET (1 .. n) /\ n \in Nat /\ HistoryLimit \in Nat /\ HistoryLimit <= Cap
    BY <1>1 DEF RoomAssumption
  <2> HIDE DEF n, A
  <2>3. /\ w \in Seq(A) /\ Len(w) <= HistoryLimit /\ Rises(w)
        /\ \A x \in A : x \in ToSet(w) \/ Cardinality(A \cap x + 1 .. n) >= HistoryLimit
    BY <2>2, LastOfThoseInOrder
  <2>4. w \in Seq(1 .. n) /\ Len(w) \in Nat /\ ToSet(w) \subseteq A
    BY <2>2, <2>3, SeqWider, ToSetIs
  <2> HIDE DEF w
  <2>5. events = <<>> /\ openedAt = None
    BY <1>2, <2>1
  <2>6. Feed(posted', window', events')
    <3>1. Follows(w, <<>>)
      BY DEF Follows
    <3>2. Len(w) <= Cap
      BY <2>2, <2>3, <2>4 DEF RoomAssumption
    <3> QED
      BY <1>1, <2>1, <2>3, <2>4, <2>5, <3>1, <3>2 DEF Feed, n
  <2>7. Plain(posted') \subseteq Safe'
    <3>1. \A x \in A : x \in ToSet(w) \/ x \in Hidden(posted, n)
      BY <2>2, <2>3 DEF Hidden
    <3> QED
      BY <2>1, <2>2, <3>1
  <2>8. RoomInv'
    <3>1. 1 .. n \subseteq Nat
      BY <2>2
    <3> QED
      BY <1>1, <2>1, <2>2, <2>4, <3>1 DEF RoomInv
  <2> QED
    BY <1>1, <1>2, <1>4, <2>1, <2>2, <2>5, <2>6, <2>7, <2>8 DEF n, None, RoomAssumption
<1>7. CASE D!OpenGateway
  <2>1. /\ task = "receiving" /\ openedAt = None /\ openedAt' = Len(posted)
        /\ UNCHANGED <<task, queued, posted, window, shown, fetchedAt, events>>
    BY <1>7 DEF D!OpenGateway, D!taskVars, D!feedVars, D!None, None
  <2>2. Plain(posted') \subseteq Safe'
    <3>1. \A x \in fetchedAt + 1 .. openedAt : x \in 1 .. Len(posted) => x \in fetchedAt' + 1 .. openedAt'
      BY <1>1, <1>2, <2>1 DEF None, RoomAssumption
    <3>2. UNCHANGED Hidden(posted, fetchedAt) /\ UNCHANGED ToSet(events)
      BY <2>1
    <3> QED
      BY <1>1, <1>3, <2>1, <3>1, <3>2 DEF Live
  <2> QED
    BY <1>1, <1>2, <1>4, <2>1, <2>2 DEF RoomInv, Live, None, RoomAssumption
<1>8. CASE D!NextEvent
  <2>1. /\ task = "receiving" /\ events # <<>> /\ events' = Tail(events)
        /\ UNCHANGED <<task, queued, posted, fetchedAt, openedAt>>
        /\ IF Head(events) \in Plain(posted)
             THEN /\ window' = PushOne(window, Head(events))
                  /\ shown' = shown \cup ToSet(PushOne(window, Head(events)))
             ELSE UNCHANGED <<window, shown>>
    BY <1>8, DiscordIs DEF D!NextEvent, D!Show, D!taskVars
  <2>2. /\ Feed(posted, window, Tail(events))
        /\ Head(events) # 0 => /\ Feed(posted, PushOne(window, Head(events)), Tail(events))
                               /\ Head(events) \in ToSet(PushOne(window, Head(events)))
                               /\ ToSet(PushOne(window, Head(events))) \subseteq Nat
    BY <1>1, <2>1, FeedRead
  <2>3. ToSet(events) = ToSet(Tail(events)) \cup {Head(events)}
    BY <1>1, <2>1, ToSetTail
  <2>4. Head(events) \in Plain(posted) => Head(events) # 0
    BY <1>1
  <2>5. Feed(posted, window, events)' /\ RoomInv'
    BY <1>1, <2>1, <2>2, <2>4 DEF RoomInv
  <2>6. Plain(posted') \subseteq Safe'
    <3>1. UNCHANGED Hidden(posted, fetchedAt) /\ UNCHANGED (fetchedAt + 1 .. openedAt)
      BY <2>1
    <3> QED
      BY <1>3, <2>1, <2>2, <2>3, <2>4, <3>1 DEF Live
  <2> QED
    BY <1>2, <1>4, <2>1, <2>5, <2>6 DEF Live
<1>9. CASE D!Cancel \/ ((D!SubmitIntent \/ D!SendReturns \/ D!TaskEnds) /\ UNCHANGED D!discordVars)
  <2>1. /\ UNCHANGED <<posted, window, shown, fetchedAt, openedAt, events>>
        /\ task' \in TaskStates \ {"connecting"} /\ queued' \in Nat
        /\ Live' => Live
    BY <1>1, <1>9, DiscordIs
       DEF RoomInv, D!Cancel, D!TakeIntent, D!SubmitIntent, D!SendReturns, D!TaskEnds, D!feedVars,
           D!discordVars, Live
  <2>2. UNCHANGED Safe
    BY <2>1
  <2> QED
    BY <1>1, <1>2, <1>3, <1>4, <2>1, <2>2 DEF RoomInv
<1> QED
  BY <1>5, <1>6, <1>7, <1>8, <1>9 DEF D!Next, Kinds

-----------------------------------------------------------------------------
(* WhatsApp *)

LEMMA WhatsAppStarts ==
  ASSUME RoomAssumption, Init PROVE WhatsAppInv
BY DEF Init, I!Init, I!RoomInit, WhatsAppInv, RoomInv, TaskStates

LEMMA WhatsAppSteps ==
  ASSUME RoomAssumption, WhatsAppInv, W!Next PROVE WhatsAppInv'
<1>1. RoomInv /\ posted \in Seq(Kinds) /\ window = <<>> /\ shown = {}
  BY DEF WhatsAppInv
<1>2. window' = <<>> /\ shown' = {} /\ task' \in TaskStates /\ queued' \in Nat
  <2>1. W!ToSet(<<>>) = {}
    BY DEF W!ToSet
  <2> QED
    BY <1>1, <2>1
       DEF W!Next, W!WhatsAppPost, W!Post, W!Verify, W!Connected, W!Show, W!RecvReturnsNone, W!ConnectFails,
           W!TaskEnds, W!TakeIntent, W!SubmitIntent, W!SendReturns, W!Live, W!taskVars, W!feedVars,
           RoomInv, TaskStates
<1>3. posted' \in Seq(Kinds)
  <2>1. CASE W!WhatsAppPost
    <3>1. posted' = Append(posted, "message") /\ "message" \in Kinds
      BY <2>1 DEF W!WhatsAppPost, W!Post, Kinds
    <3> QED
      BY <1>1, <3>1, AppendProperties
  <2>2. CASE ~ W!WhatsAppPost
    BY <1>1, <2>2
       DEF W!Next, W!Verify, W!Connected, W!RecvReturnsNone, W!ConnectFails,
           W!TaskEnds, W!TakeIntent, W!SubmitIntent, W!SendReturns, W!feedVars
  <2> QED
    BY <2>1, <2>2
<1> QED
  BY <1>2, <1>3 DEF WhatsAppInv, RoomInv

-----------------------------------------------------------------------------
(* Slack *)

\* What the history is not asked for.
Older(f) == 1 .. f - (IF HistoryLimit < f THEN HistoryLimit ELSE f)

LEMMA SlackIs ==
  /\ \A s : S!ToSet(s) = ToSet(s)
  /\ \A w, n : S!PushOne(w, n) = PushOne(w, n)
  /\ S!Messages = Plain(posted)
  /\ S!Live <=> Live
  /\ S!None = None
  /\ \A a, b : S!Lower(a, b) = IF a < b THEN a ELSE b
  /\ \A m, n : S!PlainFrom(m, n) = InOrder(Plain(posted) \cap m .. n)
  /\ S!NothingSlipsThrough <=>
       (Live => Plain(posted) \subseteq Older(fetchedAt) \cup shown \cup ToSet(ws) \cup {hand} \cup cancelled)
  /\ window \in Seq(Nat) => (S!InOrderAfterConnect <=> RisesBut(window, openedAt + 1 .. fetchedAt))
<1>1. \A s : S!ToSet(s) = ToSet(s)
  BY DEF S!ToSet, ToSet
<1>2. \A w, n : S!PushOne(w, n) = PushOne(w, n)
  BY DEF S!PushOne, PushOne
<1>3. S!Messages = Plain(posted)
  BY DEF S!Messages, Plain
<1>4. S!Live <=> Live
  BY DEF S!Live, Live
<1>5. \A A : S!Cardinality(A) = Cardinality(A)
  BY DEF S!Cardinality, Cardinality, S!IsFiniteSet, IsFiniteSet
<1>6. \A m, n : S!PlainFrom(m, n) = InOrder(Plain(posted) \cap m .. n)
  BY <1>3, <1>5 DEF S!PlainFrom, S!Sorted, InOrder
<1>7. S!None = None
  BY DEF S!None, None
<1>8. \A a, b : S!Lower(a, b) = IF a < b THEN a ELSE b
  BY DEF S!Lower
<1>9. S!TooOld = Older(fetchedAt)
  BY <1>8 DEF S!TooOld, Older
<1>10. S!NothingSlipsThrough <=>
        (Live => Plain(posted) \subseteq Older(fetchedAt) \cup shown \cup ToSet(ws) \cup {hand} \cup cancelled)
  BY <1>1, <1>3, <1>4, <1>9 DEF S!NothingSlipsThrough
<1>11. ASSUME window \in Seq(Nat)
       PROVE  S!InOrderAfterConnect <=> RisesBut(window, openedAt + 1 .. fetchedAt)
  <2>1. DOMAIN window = 1 .. Len(window)
    BY <1>11
  <2> QED
    BY <2>1 DEF S!InOrderAfterConnect, RisesBut
<1> QED
  BY <1>1, <1>2, <1>3, <1>4, <1>6, <1>7, <1>8, <1>10, <1>11

LEMMA SlackStarts ==
  ASSUME RoomAssumption, Init PROVE SlackInv
<1>1. /\ posted = <<>> /\ window = <<>> /\ ws = <<>> /\ shown = {} /\ task = "connecting" /\ queued = 0
      /\ fetchedAt = None /\ openedAt = None /\ recv = "reading" /\ hand = 0 /\ acked = {} /\ cancelled = {}
  BY DEF Init, S!Init, S!RoomInit, S!None, None
<1>2. ~ Live
  BY <1>1 DEF Live
<1>3. S!NothingSlipsThrough /\ S!InOrderAfterConnect
  BY <1>1, <1>2, SlackIs DEF RisesBut
<1>4. SlackOrder(<<>>, <<>>, 0, None)
  BY DEF SlackOrder
<1>5. MaxPosted \in Nat /\ Cap \in Nat /\ Len(<<>>) = 0 /\ <<>> \in Seq(Kinds) /\ <<>> \in Seq(1 .. 0)
  BY DEF RoomAssumption
<1> QED
  BY <1>1, <1>2, <1>3, <1>4, <1>5 DEF SlackInv, SlackTypes, SlackConnects, RoomInv, TaskStates, None

LEMMA SlackOrderPosted ==
  ASSUME NEW n \in Nat, NEW w \in Seq(1 .. n), NEW s \in Seq(1 .. n), NEW h \in 0 .. n, NEW f,
         SlackOrder(w, s, h, f)
  PROVE  SlackOrder(w, Append(s, n + 1), h, f)
<1>1. /\ Append(s, n + 1) \in Seq(1 .. n + 1) /\ Len(Append(s, n + 1)) = Len(s) + 1
      /\ Append(s, n + 1)[Len(s) + 1] = n + 1
      /\ \A k \in 1 .. Len(s) : Append(s, n + 1)[k] = s[k] /\ s[k] < n + 1
  <2>1. 1 .. n \subseteq 1 .. n + 1 /\ n + 1 \in 1 .. n + 1
    OBVIOUS
  <2>2. s \in Seq(1 .. n + 1)
    BY <2>1, SeqWider
  <2> QED
    BY <2>1, <2>2, AppendProperties
<1>2. /\ \A k \in 1 .. Len(s) + 1 : k \in 1 .. Len(s) \/ k = Len(s) + 1
      /\ \A k, l \in 1 .. Len(s) + 1 : k < l => k \in 1 .. Len(s)
  <2>1. Len(s) \in Nat
    OBVIOUS
  <2> QED
    BY <2>1
<1>3. \A k \in 1 .. Len(w) : w[k] < n + 1
  OBVIOUS
<1>4. h < n + 1
  OBVIOUS
<1> QED
  BY <1>1, <1>2, <1>3, <1>4 DEF SlackOrder

LEMMA SlackOrderRead ==
  ASSUME NEW n \in Nat, NEW w \in Seq(1 .. n), NEW s \in Seq(1 .. n), s # <<>>, NEW h, NEW f,
         SlackOrder(w, s, h, f)
  PROVE  SlackOrder(w, Tail(s), Head(s), f)
<1>1. /\ Tail(s) \in Seq(1 .. n) /\ Len(Tail(s)) = Len(s) - 1 /\ Len(s) \in Nat \ {0}
      /\ Head(s) = s[1] /\ \A k \in 1 .. Len(s) - 1 : Tail(s)[k] = s[k + 1]
  BY HeadTailProperties
<1>2. /\ 1 \in 1 .. Len(s)
      /\ \A k \in 1 .. Len(s) - 1 : k + 1 \in 1 .. Len(s) /\ 1 < k + 1
      /\ \A k, l \in 1 .. Len(s) - 1 : k < l => k + 1 < l + 1
  BY <1>1
<1> QED
  BY <1>1, <1>2 DEF SlackOrder

LEMMA SlackOrderDropped ==
  ASSUME NEW n \in Nat, NEW s \in Seq(1 .. n), NEW w, NEW h, NEW f, SlackOrder(w, s, h, f)
  PROVE  SlackOrder(w, s, 0, f)
<1>1. \A k \in 1 .. Len(s) : 0 < s[k]
  OBVIOUS
<1> QED
  BY <1>1 DEF SlackOrder

\* What recv() adds is newer than all the window has, or in the history too.
LEMMA SlackOrderPushed ==
  ASSUME RoomAssumption, NEW N \in SUBSET (Nat \ {0}), NEW w \in Seq(N), Len(w) <= Cap, NEW s \in Seq(N),
         NEW h \in N, NEW o \in Nat, NEW f \in Nat, h > o,
         SlackOrder(w, s, h, f), RisesBut(w, o + 1 .. f)
  PROVE  /\ PushOne(w, h) \in Seq(N) /\ Len(PushOne(w, h)) <= Cap
         /\ h \in ToSet(PushOne(w, h)) /\ ToSet(PushOne(w, h)) \subseteq Nat
         /\ SlackOrder(PushOne(w, h), s, 0, f) /\ RisesBut(PushOne(w, h), o + 1 .. f)
<1> DEFINE r == PushOne(w, h)
<1>1. N \in SUBSET Nat /\ w \in Seq(N) /\ h \in N /\ Cap \in Nat \ {0} /\ Len(w) <= Cap
  BY DEF RoomAssumption
<1>2. h \in o + 1 .. f \/ \A k \in 1 .. Len(w) : w[k] < h
  <2>1. h \in Nat /\ h # 0 /\ \A k \in 1 .. Len(w) : w[k] \in Nat
    <3>1. h \in Nat /\ h # 0
      BY <1>1
    <3>2. \A k \in 1 .. Len(w) : w[k] \in N
      BY <1>1
    <3> QED
      BY <1>1, <3>1, <3>2
  <2>2. \A k \in 1 .. Len(w) : w[k] <= f \/ w[k] < h
    BY <2>1 DEF SlackOrder
  <2>3. CASE h <= f
    BY <2>1, <2>3
  <2>4. CASE h > f
    BY <2>1, <2>2, <2>4
  <2> QED
    BY <2>1, <2>3, <2>4
<1>3. \A k \in 1 .. Len(s) : h < s[k]
  BY DEF SlackOrder
<1>4. \A k \in 1 .. Len(w) : w[k] <= f \/ \A l \in 1 .. Len(s) : w[k] < s[l]
  BY DEF SlackOrder
<1>5. /\ r \in Seq(N) /\ Len(r) <= Cap /\ h \in ToSet(r) /\ ToSet(r) \subseteq N
      /\ \A k \in 1 .. Len(r) : r[k] = h \/ \E l \in 1 .. Len(w) : r[k] = w[l]
  <2> DEFINE Has(u, x, v) ==
               /\ v \in Seq(N) /\ Len(v) <= Cap /\ x \in ToSet(v) /\ ToSet(v) \subseteq N
               /\ \A k \in 1 .. Len(v) : v[k] = x \/ \E l \in 1 .. Len(u) : v[k] = u[l]
  <2>1. \A u \in Seq(N) : Len(u) <= Cap => \A x \in N : Has(u, x, PushOne(u, x))
    BY PushOneHas
  <2> HIDE DEF Has
  <2>2. Has(w, h, r)
    BY <1>1, <2>1
  <2> QED
    BY <2>2 DEF Has
<1>6. RisesBut(r, o + 1 .. f)
  BY <1>1, <1>2, PushKeepsOrderBut, PushOneIs
<1> HIDE DEF r
<1>7. \A k \in 1 .. Len(r) : r[k] <= f \/ \A l \in 1 .. Len(s) : r[k] < s[l]
  BY <1>3, <1>4, <1>5
<1>8. SlackOrder(r, s, 0, f)
  <2>1. \A k \in 1 .. Len(s) : 0 < s[k]
    <3>1. \A k \in 1 .. Len(s) : s[k] \in N
      OBVIOUS
    <3>2. \A x \in N : x \in Nat /\ x # 0
      OBVIOUS
    <3>3. \A x \in Nat : x # 0 => 0 < x
      OBVIOUS
    <3> QED
      BY <3>1, <3>2, <3>3
  <2>2. \A k, l \in 1 .. Len(s) : k < l => s[k] < s[l]
    BY DEF SlackOrder
  <2> QED
    BY <1>7, <2>1, <2>2 DEF SlackOrder
<1>9. ToSet(r) \subseteq Nat
  BY <1>1, <1>5
<1> QED
  BY <1>5, <1>6, <1>8, <1>9 DEF r

LEMMA SlackSteps ==
  ASSUME RoomAssumption, SlackInv, S!Next PROVE SlackInv'
<1> USE DEF TaskStates
<1> DEFINE n == Len(posted)
           Late == openedAt + 1 .. fetchedAt
           Safe == Older(fetchedAt) \cup shown \cup ToSet(ws) \cup {hand} \cup cancelled
<1>1. /\ SlackTypes /\ RoomInv
      /\ posted \in Seq(Kinds) /\ n \in Nat /\ n <= MaxPosted /\ Plain(posted) \subseteq 1 .. n
      /\ window \in Seq(1 .. n) /\ Len(window) <= Cap /\ ws \in Seq(1 .. n) /\ hand \in 0 .. n
      /\ recv \in {"reading", "acking", "naming"} /\ ((recv = "reading") <=> (hand = 0))
      /\ (recv = "naming" => hand \in Plain(posted))
      /\ acked \in SUBSET Nat /\ cancelled \in SUBSET Nat
  BY PlainPosted DEF SlackInv, SlackTypes, Kinds
<1>2. /\ openedAt \in 0 .. n \cup {None} /\ fetchedAt \in 0 .. n \cup {None}
      /\ openedAt = None => ws = <<>> /\ hand = 0 /\ fetchedAt = None
      /\ openedAt # None => openedAt <= fetchedAt
      /\ \A k \in 1 .. Len(ws) : ws[k] > openedAt
      /\ hand # 0 => hand > openedAt
      /\ task = "connecting" => window = <<>> /\ hand = 0
      /\ task = "connecting" /\ openedAt # None => openedAt + 1 .. n \subseteq ToSet(ws)
      /\ Live => fetchedAt # None
  BY DEF SlackInv, SlackConnects
<1>3. SlackOrder(window, ws, hand, fetchedAt)
  BY DEF SlackInv
<1>4. window \in Seq(Nat) /\ None \in Nat /\ None > n /\ openedAt \in Nat /\ fetchedAt \in Nat
  <2>1. 1 .. n \subseteq Nat
    BY <1>1
  <2>2. None \in Nat /\ None > n
    BY <1>1 DEF None, RoomAssumption
  <2> QED
    BY <1>1, <1>2, <2>1, <2>2, SeqWider
<1>5. Live => Plain(posted) \subseteq Safe
  BY SlackIs DEF SlackInv
<1>6. RisesBut(window, Late)
  BY <1>4, SlackIs DEF SlackInv
<1>7. ASSUME SlackTypes', SlackConnects', SlackOrder(window, ws, hand, fetchedAt)',
             Live' => Plain(posted') \subseteq Safe', RisesBut(window, Late)'
      PROVE  SlackInv'
  <2>1. (S!NothingSlipsThrough <=> (Live => Plain(posted) \subseteq Safe))'
    BY SlackIs, PTL
  <2>2. (window \in Seq(Nat) => (S!InOrderAfterConnect <=> RisesBut(window, Late)))'
    BY SlackIs, PTL
  <2>3. window' \in Seq(Nat)
    <3>1. 1 .. Len(posted') \subseteq Nat /\ window' \in Seq(1 .. Len(posted'))
      BY <1>7 DEF SlackTypes
    <3> QED
      BY <3>1, SeqWider
  <2> QED
    BY <1>7, <2>1, <2>2, <2>3 DEF SlackInv
<1> HIDE DEF Safe
\* Steps that touch neither the platform nor the order of what is on its way.
<1>8. ASSUME UNCHANGED <<posted, window, ws, openedAt, fetchedAt>>, RoomInv',
             task' = "connecting" => task = "connecting",
             hand' \in {0, hand}, recv' \in {"reading", "acking", "naming"}, (recv' = "reading") <=> (hand' = 0),
             recv' = "naming" => hand' \in Plain(posted),
             acked' \in SUBSET Nat, cancelled' \in SUBSET Nat,
             Live' => Live /\ Plain(posted) \subseteq Safe'
      PROVE  SlackInv'
  <2>1. SlackTypes'
    BY <1>1, <1>8 DEF SlackTypes
  <2>2. SlackConnects'
    BY <1>1, <1>2, <1>8 DEF SlackConnects, None
  <2>3. SlackOrder(window, ws, 0, fetchedAt)
    BY <1>1, <1>3, SlackOrderDropped
  <2>4. SlackOrder(window, ws, hand, fetchedAt)'
    BY <1>3, <1>8, <2>3
  <2> QED
    BY <1>6, <1>7, <1>8, <2>1, <2>2, <2>4
<1>9. ASSUME NEW kind \in Kinds, S!SlackPost(kind)
      PROVE  SlackInv'
  <2>1. /\ posted' = Append(posted, kind) /\ n < MaxPosted
        /\ UNCHANGED <<task, queued, window, shown, openedAt, fetchedAt, recv, hand, acked, cancelled>>
        /\ ws' = IF openedAt # None /\ task # "ended" THEN Append(ws, n + 1) ELSE ws
    BY <1>9, SlackIs DEF S!SlackPost, S!Post, S!taskVars
  <2>2. /\ Plain(posted) \subseteq Plain(posted')
        /\ Plain(posted') \subseteq Plain(posted) \cup {n + 1}
        /\ posted' \in Seq(Kinds) /\ Len(posted') = n + 1
    BY <1>1, <2>1, PlainPosted, AppendProperties
  <2>3. 1 .. n \subseteq 1 .. n + 1 /\ n + 1 \in 1 .. n + 1
    BY <1>1
  <2>4. window \in Seq(1 .. n + 1) /\ ws \in Seq(1 .. n + 1)
    BY <1>1, <2>3, SeqWider
  <2>5. /\ ws' \in Seq(1 .. n + 1)
        /\ \A k \in 1 .. Len(ws') : ws'[k] = n + 1 \/ \E l \in 1 .. Len(ws) : ws'[k] = ws[l]
    <3> DEFINE a == Append(ws, n + 1)
    <3>1. /\ a \in Seq(1 .. n + 1) /\ Len(a) = Len(ws) + 1 /\ a[Len(ws) + 1] = n + 1
          /\ \A k \in 1 .. Len(ws) : a[k] = ws[k]
      BY <2>3, <2>4, AppendProperties
    <3>2. \A k \in 1 .. Len(ws) + 1 : k \in 1 .. Len(ws) \/ k = Len(ws) + 1
      BY <2>4
    <3> HIDE DEF a
    <3>3. \A k \in 1 .. Len(a) : a[k] = n + 1 \/ \E l \in 1 .. Len(ws) : a[k] = ws[l]
      BY <3>1, <3>2
    <3>4. ws' = a \/ ws' = ws
      BY <2>1 DEF a
    <3> QED
      BY <2>4, <3>1, <3>3, <3>4
  <2>6. ToSet(Append(ws, n + 1)) = ToSet(ws) \cup {n + 1}
    BY <2>3, <2>4, ToSetAppend
  <2>7. SlackTypes'
    BY <1>1, <2>1, <2>2, <2>4, <2>5 DEF SlackTypes, RoomInv
  <2>8. SlackConnects'
    <3>1. openedAt' \in 0 .. Len(posted') \cup {None} /\ fetchedAt' \in 0 .. Len(posted') \cup {None}
      BY <1>1, <1>2, <2>1, <2>2
    <3>2. openedAt' # None => \A k \in 1 .. Len(ws') : ws'[k] > openedAt'
      BY <1>1, <1>2, <2>1, <2>5
    <3>3. openedAt' = None => ws' = <<>> /\ \A k \in 1 .. Len(ws') : ws'[k] > openedAt'
      BY <1>2, <2>1
    <3>4. task' = "connecting" /\ openedAt' # None => openedAt' + 1 .. Len(posted') \subseteq ToSet(ws')
      <4>1. openedAt + 1 .. n + 1 \subseteq (openedAt + 1 .. n) \cup {n + 1}
        BY <1>1, <1>4
      <4> QED
        BY <1>2, <2>1, <2>2, <2>6, <4>1
    <3> QED
      BY <1>2, <2>1, <3>1, <3>2, <3>3, <3>4 DEF SlackConnects, Live, None
  <2>9. SlackOrder(window, ws, hand, fetchedAt)'
    <3>1. SlackOrder(window, Append(ws, n + 1), hand, fetchedAt)
      <4>1. \A m \in Nat : \A w, x, h, f :
              w \in Seq(1 .. m) /\ x \in Seq(1 .. m) /\ h \in 0 .. m /\ SlackOrder(w, x, h, f)
                => SlackOrder(w, Append(x, m + 1), h, f)
        BY SlackOrderPosted
      <4> QED
        BY <1>1, <1>3, <4>1
    <3> QED
      BY <1>3, <2>1, <3>1
  <2>10. Live' => Plain(posted') \subseteq Safe'
    <3> SUFFICES ASSUME Live'
                 PROVE  Plain(posted') \subseteq Safe'
      OBVIOUS
    <3>1. Live /\ openedAt # None
      BY <1>2, <2>1 DEF Live
    <3>2. ToSet(ws') = ToSet(ws) \cup {n + 1}
      BY <2>1, <2>6, <3>1 DEF Live
    <3>3. Safe' = Safe \cup {n + 1}
      BY <2>1, <3>2 DEF Safe
    <3> QED
      BY <1>5, <2>2, <3>1, <3>3
  <2>11. RisesBut(window, Late)'
    BY <1>6, <2>1
  <2> QED
    BY <1>7, <2>7, <2>8, <2>9, <2>10, <2>11
<1>10. CASE S!OpenSocket \/ S!FetchHistory
  <2>1. /\ task = "connecting" /\ UNCHANGED <<task, queued, posted, window, shown, ws, recv, hand, acked, cancelled>>
        /\ \/ openedAt = None /\ openedAt' = n /\ UNCHANGED fetchedAt
           \/ openedAt # None /\ fetchedAt = None /\ fetchedAt' = n /\ UNCHANGED openedAt
    BY <1>10, SlackIs DEF S!OpenSocket, S!FetchHistory, S!taskVars, S!feedVars
  <2>2. window = <<>> /\ hand = 0 /\ ~ Live'
    BY <1>2, <2>1 DEF Live
  <2>3. SlackTypes'
    BY <1>1, <2>1 DEF SlackTypes, RoomInv
  <2>4. SlackConnects'
    <3>1. CASE openedAt = None /\ openedAt' = n /\ UNCHANGED fetchedAt
      <4>1. ws = <<>> /\ fetchedAt = None /\ n + 1 .. n = {} /\ n <= None /\ n # None
        BY <1>1, <1>2, <1>4, <3>1
      <4>2. /\ openedAt' \in 0 .. Len(posted') /\ fetchedAt' = None /\ openedAt' <= fetchedAt'
            /\ openedAt' + 1 .. Len(posted') = {} /\ ws' = <<>> /\ hand' = 0 /\ window' = <<>>
        BY <1>1, <2>1, <2>2, <3>1, <4>1 DEF None
      <4> QED
        BY <2>1, <2>2, <4>1, <4>2, <3>1 DEF SlackConnects, None
    <3>2. CASE openedAt # None /\ fetchedAt' = n /\ UNCHANGED openedAt
      <4>1. openedAt <= n /\ n # None
        BY <1>1, <1>2, <1>4, <3>2
      <4> QED
        BY <1>1, <1>2, <2>1, <2>2, <3>2, <4>1 DEF SlackConnects, None
    <3> QED
      BY <2>1, <3>1, <3>2
  <2>5. SlackOrder(window, ws, hand, fetchedAt)'
    BY <1>3, <2>1, <2>2 DEF SlackOrder
  <2>6. RisesBut(window, Late)'
    BY <2>1, <2>2 DEF RisesBut
  <2> QED
    BY <1>7, <2>2, <2>3, <2>4, <2>5, <2>6
<1>11. CASE S!NameHistory
  <2> DEFINE low == IF HistoryLimit < fetchedAt THEN HistoryLimit ELSE fetchedAt
             A == Plain(posted) \cap fetchedAt + 1 - low .. fetchedAt
             w == InOrder(A)
  <2>1. /\ task = "connecting" /\ task' = "receiving" /\ fetchedAt # None
        /\ UNCHANGED <<queued, posted, openedAt, fetchedAt, ws, recv, hand, acked, cancelled>>
        /\ window' = w /\ shown' = shown \cup ToSet(w)
    BY <1>11, SlackIs DEF S!NameHistory, S!Connected, S!Show, S!slackVars
  <2>2. /\ openedAt # None /\ openedAt <= fetchedAt /\ fetchedAt \in 0 .. n /\ hand = 0
        /\ openedAt + 1 .. n \subseteq ToSet(ws) /\ openedAt \in Nat
    BY <1>1, <1>2, <2>1
  <2>3. HistoryLimit \in Nat /\ Cap \in Nat /\ low \in Nat /\ low <= Cap /\ low <= fetchedAt
    BY <1>4 DEF RoomAssumption
  <2>4. /\ A \in SUBSET (1 .. n) /\ A \subseteq fetchedAt + 1 - low .. fetchedAt
        /\ \A x \in A : x <= fetchedAt
    BY <1>1, <1>4, <2>3
  <2>5. Cardinality(A) <= low
    <3>1. IsFiniteSet(fetchedAt + 1 - low .. fetchedAt) /\ Cardinality(fetchedAt + 1 - low .. fetchedAt) = low
      <4>1. low \in Int /\ fetchedAt \in Int
        BY <2>2, <2>3
      <4> HIDE DEF low
      <4> DEFINE a == fetchedAt + 1 - low
      <4>2. a \in Int /\ a <= fetchedAt + 1 /\ fetchedAt - a + 1 = low
        BY <2>3, <4>1
      <4> HIDE DEF a
      <4>3. IsFiniteSet(a .. fetchedAt) /\ Cardinality(a .. fetchedAt) = IF a > fetchedAt THEN 0 ELSE fetchedAt - a + 1
        BY <4>1, <4>2, FS_Interval
      <4>4. (IF a > fetchedAt THEN 0 ELSE fetchedAt - a + 1) = low
        BY <4>1, <4>2
      <4> QED
        BY <4>3, <4>4 DEF a
    <3> QED
      BY <2>4, <3>1, FS_Subset
  <2> HIDE DEF A
  <2>6. w \in Seq(A) /\ Len(w) = Cardinality(A) /\ Cardinality(A) \in 0 .. n /\ Rises(w) /\ ToSet(w) = A
    BY <1>1, <2>4, InOrderIs
  <2> HIDE DEF w
  <2>7. w \in Seq(1 .. n) /\ Len(w) <= Cap /\ A \subseteq Nat
    <3>1. 1 .. n \subseteq Nat
      BY <1>1
    <3>2. A \subseteq 1 .. n /\ w \in Seq(A)
      BY <2>4, <2>6
    <3>3. w \in Seq(1 .. n)
      BY <3>2, SeqWider
    <3>4. Cardinality(A) \in Nat
      BY <1>1, <2>6
    <3>5. Len(w) <= Cap
      BY <2>3, <2>5, <2>6, <3>4
    <3> QED
      BY <3>1, <3>2, <3>3, <3>5
  <2>8. SlackTypes'
    BY <1>1, <2>1, <2>6, <2>7 DEF SlackTypes, RoomInv
  <2>9. SlackConnects'
    BY <1>2, <2>1, <2>2 DEF SlackConnects, None
  <2>10. SlackOrder(window, ws, hand, fetchedAt)'
    <3>1. \A k \in 1 .. Len(w) : w[k] \in A
      BY <2>6
    <3>2. \A k \in 1 .. Len(w) : w[k] <= fetchedAt
      BY <2>4, <3>1
    <3> QED
      BY <1>3, <2>1, <3>2 DEF SlackOrder
  <2>11. Plain(posted') \subseteq Safe'
    <3>1. ASSUME NEW x \in Plain(posted)
          PROVE  x \in Older(fetchedAt) \cup A \cup ToSet(ws)
      <4>1. x \in 1 .. n
        BY <1>1
      <4>2. CASE x > fetchedAt
        BY <1>1, <2>2, <4>1, <4>2
      <4>3. CASE x <= fetchedAt
        <5>1. x \in fetchedAt + 1 - low .. fetchedAt \/ x \in 1 .. fetchedAt - low
          BY <2>2, <2>3, <4>1, <4>3
        <5> QED
          BY <5>1 DEF Older, A
      <4> QED
        BY <1>4, <4>1, <4>2, <4>3
    <3>2. Safe' = Older(fetchedAt) \cup (shown \cup A) \cup ToSet(ws) \cup {hand} \cup cancelled
      BY <2>1, <2>6 DEF Safe
    <3> QED
      BY <2>1, <3>1, <3>2
  <2>12. RisesBut(window, Late)'
    BY <2>1, <2>6 DEF Rises, RisesBut
  <2> QED
    BY <1>7, <2>8, <2>9, <2>10, <2>11, <2>12
<1>12. CASE S!ReadEnvelope
  <2>1. /\ task = "receiving" /\ recv = "reading" /\ ws # <<>> /\ hand' = Head(ws) /\ ws' = Tail(ws)
        /\ recv' = "acking"
        /\ UNCHANGED <<task, queued, posted, window, shown, openedAt, fetchedAt, acked, cancelled>>
    BY <1>12 DEF S!ReadEnvelope, S!taskVars, S!feedVars
  <2>2. /\ Tail(ws) \in Seq(1 .. n) /\ Len(Tail(ws)) = Len(ws) - 1 /\ Len(ws) \in Nat \ {0}
        /\ Head(ws) = ws[1] /\ Head(ws) \in 1 .. n
        /\ \A k \in 1 .. Len(ws) - 1 : Tail(ws)[k] = ws[k + 1]
    BY <1>1, <2>1, HeadTailProperties
  <2>3. ToSet(ws) = ToSet(Tail(ws)) \cup {Head(ws)}
    BY <1>1, <2>1, ToSetTail
  <2>4. SlackTypes'
    BY <1>1, <2>1, <2>2 DEF SlackTypes, RoomInv
  <2>5. SlackConnects'
    <3>1. /\ \A k \in 1 .. Len(Tail(ws)) : Tail(ws)[k] > openedAt
          /\ Head(ws) > openedAt
      <4>1. 1 \in 1 .. Len(ws) /\ \A k \in 1 .. Len(ws) - 1 : k + 1 \in 1 .. Len(ws)
        BY <2>2
      <4> QED
        BY <1>2, <2>2, <4>1
    <3> QED
      BY <1>2, <2>1, <3>1 DEF SlackConnects, None, Live
  <2>6. SlackOrder(window, ws, hand, fetchedAt)'
    <3>1. SlackOrder(window, Tail(ws), Head(ws), fetchedAt)
      <4>1. \A m \in Nat : \A v, x, h, f :
              v \in Seq(1 .. m) /\ x \in Seq(1 .. m) /\ x # <<>> /\ SlackOrder(v, x, h, f)
                => SlackOrder(v, Tail(x), Head(x), f)
        BY SlackOrderRead
      <4> QED
        BY <1>1, <1>3, <2>1, <4>1
    <3> QED
      BY <2>1, <3>1
  <2>7. Live' => Plain(posted') \subseteq Safe'
    <3>1. 0 \notin Plain(posted) /\ hand = 0
      BY <1>1, <2>1
    <3>2. Safe \ {0} \subseteq Safe'
      BY <2>1, <2>3, <3>1 DEF Safe
    <3> QED
      BY <1>5, <2>1, <3>1, <3>2 DEF Live
  <2> QED
    BY <1>6, <1>7, <2>1, <2>4, <2>5, <2>6, <2>7
<1>13. CASE S!Acked
  <2>1. /\ task = "receiving" /\ recv = "acking" /\ acked' = acked \cup {hand}
        /\ \/ hand \in Plain(posted) /\ recv' = "naming" /\ hand' = hand
           \/ hand \notin Plain(posted) /\ recv' = "reading" /\ hand' = 0
        /\ UNCHANGED <<task, queued, posted, window, shown, ws, openedAt, fetchedAt, cancelled>>
    BY <1>13, SlackIs DEF S!Acked, S!taskVars, S!feedVars
  <2>2. hand # 0 /\ acked' \in SUBSET Nat
    BY <1>1, <2>1
  <2>3. Safe \ {hand} \subseteq Safe' /\ hand' \in Safe'
    BY <2>1 DEF Safe
  <2>4. Live' => Live /\ Plain(posted) \subseteq Safe'
    BY <1>5, <2>1, <2>3 DEF Live
  <2> QED
    BY <1>1, <1>8, <2>1, <2>2, <2>4 DEF RoomInv
<1>14. CASE S!Named
  <2>1. /\ task = "receiving" /\ recv = "naming" /\ recv' = "reading" /\ hand' = 0
        /\ window' = PushOne(window, hand) /\ shown' = shown \cup ToSet(PushOne(window, hand))
        /\ UNCHANGED <<task, queued, posted, ws, openedAt, fetchedAt, acked, cancelled>>
    BY <1>14, SlackIs DEF S!Named, S!Show, S!taskVars
  <2>2. hand \in 1 .. n /\ hand > openedAt
    BY <1>1, <1>2, <2>1
  <2>3. /\ PushOne(window, hand) \in Seq(1 .. n) /\ Len(PushOne(window, hand)) <= Cap
        /\ hand \in ToSet(PushOne(window, hand)) /\ ToSet(PushOne(window, hand)) \subseteq Nat
        /\ SlackOrder(PushOne(window, hand), ws, 0, fetchedAt) /\ RisesBut(PushOne(window, hand), Late)
    <3> DEFINE N == 1 .. n
               Can(w, x, h, o, f) ==
                 /\ w \in Seq(N) /\ Len(w) <= Cap /\ x \in Seq(N) /\ h \in N /\ o \in Nat /\ f \in Nat /\ h > o
                 /\ SlackOrder(w, x, h, f) /\ RisesBut(w, o + 1 .. f)
               Does(w, x, h, o, f) ==
                 /\ PushOne(w, h) \in Seq(N) /\ Len(PushOne(w, h)) <= Cap
                 /\ h \in ToSet(PushOne(w, h)) /\ ToSet(PushOne(w, h)) \subseteq Nat
                 /\ SlackOrder(PushOne(w, h), x, 0, f) /\ RisesBut(PushOne(w, h), o + 1 .. f)
    <3>1. N \in SUBSET (Nat \ {0})
      BY <1>1
    <3> HIDE DEF N
    <3>2. ASSUME NEW w, NEW x, NEW h, NEW o, NEW f, Can(w, x, h, o, f)
          PROVE  Does(w, x, h, o, f)
      BY <3>1, <3>2, SlackOrderPushed
    <3>3. openedAt \in Nat /\ fetchedAt \in Nat
      BY <1>1, <1>2, <1>4, <2>1, <2>2 DEF None
    <3>4. Can(window, ws, hand, openedAt, fetchedAt)
      BY <1>1, <1>3, <1>6, <2>2, <3>3 DEF N
    <3> HIDE DEF Can, Does
    <3>5. Does(window, ws, hand, openedAt, fetchedAt)
      BY <3>2, <3>4
    <3> QED
      BY <3>5 DEF Does, N
  <2>4. SlackTypes'
    <3>1. shown' \in SUBSET Nat
      BY <1>1, <2>1, <2>3 DEF RoomInv
    <3> QED
      BY <1>1, <2>1, <2>3, <3>1 DEF SlackTypes, RoomInv
  <2>5. SlackConnects'
    BY <1>2, <2>1 DEF SlackConnects, None, Live
  <2>6. Live' => Plain(posted') \subseteq Safe'
    <3>1. Safe \subseteq Safe' \cup {hand} /\ hand \in Safe'
      BY <2>1, <2>3 DEF Safe
    <3> QED
      BY <1>5, <2>1, <3>1 DEF Live
  <2> QED
    BY <1>7, <2>1, <2>3, <2>4, <2>5, <2>6
<1>15. CASE S!Cancel
  <2>1. /\ task = "receiving" /\ task' \in {"sending", "receiving"} /\ queued > 0 /\ queued' = queued - 1
        /\ acked' \in {acked, acked \cup {hand}}
        /\ cancelled' = cancelled \cup ({hand} \cap Plain(posted)) /\ recv' = "reading" /\ hand' = 0
        /\ UNCHANGED <<posted, window, shown, ws, openedAt, fetchedAt>>
    BY <1>15, SlackIs DEF S!Cancel, S!TakeIntent, S!feedVars
  <2>2. acked' \in SUBSET Nat /\ cancelled' \in SUBSET Nat
    <3>1. hand \in Nat
      BY <1>1
    <3> QED
      BY <1>1, <2>1, <3>1
  <2>3. RoomInv'
    <3>1. queued' \in Nat
      BY <1>1, <2>1 DEF RoomInv
    <3> QED
      BY <1>1, <2>1, <3>1 DEF RoomInv
  <2>4. Live' => Live /\ Plain(posted) \subseteq Safe'
    <3>1. Safe \cap Plain(posted) \subseteq Safe'
      BY <2>1 DEF Safe
    <3> QED
      BY <1>5, <2>1, <3>1 DEF Live
  <2> QED
    BY <1>8, <2>1, <2>2, <2>3, <2>4
<1>16. CASE (S!SubmitIntent /\ UNCHANGED S!slackVars) \/ (S!SendReturns /\ UNCHANGED S!slackVars) \/ S!SlackEnds
  <2>1. /\ UNCHANGED <<posted, window, shown, ws, openedAt, fetchedAt, recv, hand, acked, cancelled>>
        /\ task' \in TaskStates \ {"connecting"} /\ queued' \in Nat /\ (Live' => Live)
    BY <1>1, <1>16, SlackIs
       DEF RoomInv, S!SubmitIntent, S!SendReturns, S!SlackEnds, S!TaskEnds, S!feedVars, S!slackVars, Live
  <2>2. UNCHANGED Safe
    BY <2>1 DEF Safe
  <2> QED
    BY <1>1, <1>5, <1>8, <2>1, <2>2 DEF RoomInv
<1> QED
  BY <1>9, <1>10, <1>11, <1>12, <1>13, <1>14, <1>15, <1>16 DEF S!Next, Kinds

-----------------------------------------------------------------------------
(* All of them *)

LEMMA StreamsHold == Spec => []StreamsInv
<1>1. Init => StreamsInv
  BY RoomAssumption, SlackStarts, DiscordStarts, IrcStarts, SignalStarts, WhatsAppStarts DEF StreamsInv
<1>2. StreamsInv /\ [Next]_vars => StreamsInv'
  <2>1. ASSUME StreamsInv, Next PROVE StreamsInv'
    <3>1. CASE connector = "slack" /\ S!Next
      <4>1. SlackInv'
        BY <2>1, <3>1, RoomAssumption, SlackSteps DEF StreamsInv
      <4> QED
        BY <2>1, <3>1, <4>1 DEF StreamsInv, Next
    <3>2. CASE connector = "discord" /\ D!Next
      <4>1. DiscordInv'
        BY <2>1, <3>2, RoomAssumption, DiscordSteps DEF StreamsInv
      <4> QED
        BY <2>1, <3>2, <4>1 DEF StreamsInv, Next
    <3>3. CASE connector = "irc" /\ I!Next
      <4>1. IrcInv'
        BY <2>1, <3>3, RoomAssumption, IrcSteps DEF StreamsInv
      <4> QED
        BY <2>1, <3>3, <4>1 DEF StreamsInv, Next
    <3>4. CASE connector = "signal" /\ G!Next
      <4>1. SignalInv'
        BY <2>1, <3>4, RoomAssumption, SignalSteps DEF StreamsInv
      <4> QED
        BY <2>1, <3>4, <4>1 DEF StreamsInv, Next
    <3>5. CASE connector = "whatsapp" /\ W!Next
      <4>1. WhatsAppInv'
        BY <2>1, <3>5, RoomAssumption, WhatsAppSteps DEF StreamsInv
      <4> QED
        BY <2>1, <3>5, <4>1 DEF StreamsInv, Next
    <3> QED
      BY <2>1, <3>1, <3>2, <3>3, <3>4, <3>5 DEF Next
  <2>2. ASSUME StreamsInv, UNCHANGED vars PROVE StreamsInv'
    <3>1. /\ UNCHANGED <<task, queued, posted, window, shown, connector, openedAt, fetchedAt, recv>>
          /\ UNCHANGED <<ws, hand, acked, cancelled, events, joinedAt, pings, ponged, torn, lines>>
      BY <2>2 DEF vars, taskVars, feedVars, inConnect, slackOnly, ircOnly
    <3>2. UNCHANGED RoomInv /\ UNCHANGED Live
      BY <3>1 DEF RoomInv, Live
    <3>3. UNCHANGED SlackInv
      <4>1. UNCHANGED <<SlackTypes, SlackConnects, S!NothingSlipsThrough, S!InOrderAfterConnect>>
        BY <3>1, <3>2 DEF SlackTypes, SlackConnects, S!NothingSlipsThrough, S!InOrderAfterConnect,
                          S!Live, S!Messages, S!TooOld
      <4> QED
        BY <3>1, <4>1 DEF SlackInv
    <3>4. UNCHANGED <<DiscordInv, SignalInv, WhatsAppInv>>
      BY <3>1, <3>2 DEF DiscordInv, SignalInv, WhatsAppInv, D!NothingElseSlipsThrough,
                        D!Live, D!Messages, D!TooOld
    <3>5. UNCHANGED IrcInv
      BY <3>1, <3>2 DEF IrcInv, I!NothingSlipsThrough, I!PingsAreAccountedFor, I!Live, I!Messages
    <3> QED
      BY <2>2, <3>1, <3>3, <3>4, <3>5 DEF StreamsInv
  <2> QED
    BY <2>1, <2>2
<1> QED
  BY <1>1, <1>2, PTL DEF Spec

\* What Rises says, of the window.
LEMMA WindowRises ==
  ASSUME NEW n, n \in Nat, window \in Seq(1 .. n), Rises(window)
  PROVE  window \in Seq(Nat) /\ StrictlyInOrder
<1>1. 1 .. n \subseteq Nat /\ DOMAIN window = 1 .. Len(window)
  OBVIOUS
<1>2. window \in Seq(Nat)
  BY <1>1, SeqWider
<1> QED
  BY <1>1, <1>2 DEF Rises, StrictlyInOrder

\* A feed's window and stream have their types.
LEMMA FeedTypes ==
  ASSUME NEW p, NEW w, NEW s, Feed(p, w, s)
  PROVE  p \in Seq({"message", "other"}) /\ w \in Seq(Nat) /\ Len(w) <= Cap /\ s \in Seq(Nat)
<1>1. p \in Seq(Kinds) /\ w \in Seq(1 .. Len(p)) /\ Len(w) <= Cap /\ s \in Seq(0 .. Len(p)) /\ Len(p) \in Nat
  BY DEF Feed
<1>2. 1 .. Len(p) \subseteq Nat /\ 0 .. Len(p) \subseteq Nat
  BY <1>1
<1> QED
  BY <1>1, <1>2, SeqWider DEF Kinds

(***************************************************************************)
(* Every variable of the streaming connectors has its type; Slack's recv() *)
(* has an envelope in hand exactly when it is past reading one, Discord    *)
(* has no events before its session, and IRC answers a PING only while the *)
(* task receives (spawn_slack, spawn_discord, spawn_irc, spawn_signal and  *)
(* spawn_whatsapp of room.rs with the connectors' recv()).                 *)
(***************************************************************************)
THEOREM StreamTypes == Spec => []TypeOK
<1>1. StreamsInv => TypeOK
  <2> SUFFICES ASSUME StreamsInv PROVE TypeOK
    OBVIOUS
  <2>1. ASSUME SlackInv PROVE S!TypeOK
    <3> DEFINE n == Len(posted)
    <3>1. /\ RoomInv /\ posted \in Seq(Kinds) /\ n \in Nat /\ n <= MaxPosted
          /\ window \in Seq(1 .. n) /\ Len(window) <= Cap /\ ws \in Seq(1 .. n) /\ hand \in 0 .. n
          /\ recv \in {"reading", "acking", "naming"} /\ ((recv = "reading") <=> (hand = 0))
          /\ acked \in SUBSET Nat /\ cancelled \in SUBSET Nat
          /\ openedAt \in 0 .. n \cup {None} /\ fetchedAt \in 0 .. n \cup {None}
      BY <2>1 DEF SlackInv, SlackTypes, SlackConnects, Kinds
    <3>2. 1 .. n \subseteq Nat /\ hand \in Nat /\ None = MaxPosted + 1 /\ MaxPosted \in Nat
      BY <3>1, RoomAssumption DEF None
    <3>3. window \in Seq(Nat) /\ ws \in Seq(Nat)
      BY <3>1, <3>2, SeqWider
    <3>4. openedAt \in 0 .. None /\ fetchedAt \in 0 .. None
      BY <3>1, <3>2
    <3> QED
      BY <3>1, <3>2, <3>3, <3>4 DEF S!TypeOK, S!RoomTypes, S!TaskStates, S!None, None, RoomInv, TaskStates, Kinds
  <2>2. ASSUME DiscordInv PROVE D!TypeOK
    <3>1. RoomInv /\ Feed(posted, window, events)
      BY <2>2 DEF DiscordInv
    <3>2. /\ posted \in Seq({"message", "other"}) /\ window \in Seq(Nat) /\ Len(window) <= Cap
          /\ events \in Seq(Nat)
      BY <3>1, FeedTypes
    <3> QED
      BY <2>2, <3>1, <3>2 DEF DiscordInv, D!TypeOK, D!RoomTypes, D!TaskStates, D!None, None, RoomInv, TaskStates
  <2>3. ASSUME IrcInv PROVE I!TypeOK
    <3>1. RoomInv /\ Feed(posted, window, lines)
      BY <2>3 DEF IrcInv
    <3>2. /\ posted \in Seq({"message", "other"}) /\ window \in Seq(Nat) /\ Len(window) <= Cap
          /\ lines \in Seq(Nat)
      BY <3>1, FeedTypes
    <3> QED
      BY <2>3, <3>1, <3>2 DEF IrcInv, I!TypeOK, I!RoomTypes, I!TaskStates, I!None, None, RoomInv, TaskStates
  <2>4. ASSUME SignalInv PROVE G!TypeOK
    <3>1. RoomInv /\ Feed(posted, window, lines)
      BY <2>4 DEF SignalInv
    <3>2. /\ posted \in Seq({"message", "other"}) /\ window \in Seq(Nat) /\ Len(window) <= Cap
          /\ lines \in Seq(Nat)
      BY <3>1, FeedTypes
    <3> QED
      BY <3>1, <3>2 DEF G!TypeOK, G!RoomTypes, G!TaskStates, RoomInv, TaskStates
  <2>5. ASSUME WhatsAppInv PROVE W!TypeOK
    BY <2>5, RoomAssumption DEF WhatsAppInv, W!TypeOK, W!RoomTypes, W!TaskStates, RoomInv, TaskStates, Kinds
  <2> QED
    BY <2>1, <2>2, <2>3, <2>4, <2>5 DEF StreamsInv, TypeOK
<1> QED
  BY <1>1, StreamsHold, PTL

(***************************************************************************)
(* While the task lives, a message is shown or on its way to recv(), or is *)
(* lost where it may be: on Slack in recv()'s hand when an intent dropped  *)
(* its future, on Discord between the history and the session, everywhere  *)
(* when the history was no longer asked for it.  An intent that wins the   *)
(* select! of room.rs loses no line of IRC's or signal-cli's stream.       *)
(***************************************************************************)
THEOREM OnlyTheLossesNamed == Spec => []StreamsLoseOnlyWhatTheyMay
<1>1. StreamsInv => StreamsLoseOnlyWhatTheyMay
  <2>1. SignalInv => G!NothingSlipsThrough
    BY SignalIs DEF SignalInv, G!NothingSlipsThrough, G!Live
  <2> QED
    BY <2>1 DEF StreamsInv, SlackInv, DiscordInv, IrcInv, StreamsLoseOnlyWhatTheyMay
<1> QED
  BY <1>1, StreamsHold, PTL

(***************************************************************************)
(* Each PING the IRC server sent is on the stream, being answered,         *)
(* answered once, or its PONG was cut off by an intent: recv()'s future    *)
(* dropped at the write answers no PING twice.                             *)
(***************************************************************************)
THEOREM PingsAnsweredOnce == Spec => []PingsAreAccountedFor
<1>1. StreamsInv => PingsAreAccountedFor
  BY DEF StreamsInv, IrcInv, PingsAreAccountedFor
<1> QED
  BY <1>1, StreamsHold, PTL

(***************************************************************************)
(* Every snapshot the daemon gets is oldest first and has no message       *)
(* twice, whatever intents cut short and wherever the window is full; on   *)
(* Slack all but what was posted between the socket and the history, which *)
(* connect() gets from both.                                               *)
(***************************************************************************)
THEOREM WindowsInOrder == Spec => []StreamsShowInOrder
<1>1. Spec => [](connector \in Connectors)
  <2>1. Init => connector \in Connectors
    BY DEF Init
  <2>2. connector \in Connectors /\ [Next]_vars => (connector \in Connectors)'
    BY DEF Next, vars
  <2> QED
    BY <2>1, <2>2, PTL DEF Spec
<1>2. StreamsInv /\ connector \in Connectors => StreamsShowInOrder
  <2> SUFFICES ASSUME StreamsInv, connector \in Connectors PROVE StreamsShowInOrder
    OBVIOUS
  <2>1. ASSUME NEW s, Feed(posted, window, s) PROVE StrictlyInOrder
    <3>1. Len(posted) \in Nat /\ window \in Seq(1 .. Len(posted)) /\ Rises(window)
      BY <2>1 DEF Feed
    <3> QED
      BY <3>1, WindowRises
  <2>2. CASE connector = "slack"
    BY <2>2 DEF StreamsInv, SlackInv, StreamsShowInOrder
  <2>3. CASE connector = "whatsapp"
    BY <2>3 DEF StreamsInv, WhatsAppInv, StreamsShowInOrder, StrictlyInOrder
  <2>4. CASE connector \in {"discord", "irc", "signal"}
    BY <2>1, <2>4 DEF StreamsInv, DiscordInv, IrcInv, SignalInv, StreamsShowInOrder
  <2> QED
    BY <2>2, <2>3, <2>4, ConnectorAssumption
<1> QED
  BY <1>1, <1>2, StreamsHold, PTL

=============================================================================
