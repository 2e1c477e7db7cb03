---------------------------- MODULE BoardsProofs -----------------------------
(***************************************************************************)
(* Theorems of module Boards, for any users, page sizes and bounds: the    *)
(* forum's counts and pages, and the microblog's timeline.                 *)
(***************************************************************************)
EXTENDS Boards, SequenceLemmas, FiniteSetTheorems

-----------------------------------------------------------------------------
(* The forum: what is written *)

Identities == {Local(name) : name \in Authors}

Replies == [id : Nat, author : Identities]

Threads == [id : Nat, author : Identities, replies : Seq(Replies),
            reply_count : Nat, last_activity : Nat]

\* What is true of the i-th thread at a time, when next is the next reply's id.
IsThread(i, t, now, next) ==
  /\ t.id = i
  /\ t.last_activity \in 1 .. now
  /\ t.reply_count = Len(t.replies)
  /\ Len(t.replies) < next
  /\ \A j \in 1 .. Len(t.replies) : t.replies[j].id \in 1 .. next - 1

\* Threads and replies are numbered from 1 as they are written.
WrittenInv ==
  /\ threads \in Seq(Threads)
  /\ next_thread_id = Len(threads) + 1
  /\ next_reply_id \in Nat \ {0}
  /\ Now <= MaxWritten
  /\ \A i \in 1 .. Len(threads) : IsThread(i, threads[i], Now, next_reply_id)

Count(id) == IF id \in DOMAIN users THEN users[id] ELSE 0

\* Who has written something is a user, and counted for it.
CountedInv ==
  /\ users \in [DOMAIN users -> Nat \ {0}]
  /\ DOMAIN users \subseteq Identities
  /\ \A id \in Identities :
       /\ IsFiniteSet(StartedBy(id)) /\ IsFiniteSet(RepliesBy(id))
       /\ Count(id) = Cardinality(StartedBy(id)) + Cardinality(RepliesBy(id))

\* How many items the pages so far were to have.
Offset == (walk.page - 1) * PerPage

\* The pages of a thread's replies are what it begins with.  Those of the list
\* of threads, in which what is there moves back, have what the walk was begun
\* for and is no further than they reach.
WalkInv ==
  /\ walk \in [list : 0 .. Len(threads), asked : Nat \ {0}, page : Nat, more : BOOLEAN,
               due : SUBSET Nat, seen : Seq(1 .. MaxWritten)]
  /\ walk.more => walk.page > 0
  /\ walk.page > 0 => walk.due \subseteq ToSet(Listed(walk.list))
  /\ walk.more => Offset = 0 \/ Offset < Len(Listed(walk.list))
  /\ walk.list # ThreadList =>
       /\ IsPrefix(walk.seen, Listed(walk.list))
       /\ walk.more => Len(walk.seen) = Offset
  /\ walk.list = ThreadList /\ walk.more =>
       \A x \in walk.due : x > Len(threads) - Offset => x \in ToSet(walk.seen)
  /\ WalkIsDone => walk.due \subseteq ToSet(walk.seen)

ForumInv == WrittenInv /\ CountedInv /\ WalkInv

LEMMA WrittenInit == ForumInit => WrittenInv
  BY ForumAssumption DEF ForumInit, WrittenInv, Now

\* A thread is at the place its id says.
LEMMA PlaceIs ==
  ASSUME WrittenInv, NEW id \in Nat
  PROVE  Place(id) = IF id \in 1 .. Len(threads) THEN id ELSE 0
<1> DEFINE I == {i \in 1 .. Len(threads) : threads[i].id = id}
<1>1. Place(id) = IF I # {} THEN Min(I) ELSE 0
  BY DEF Place, SelectInSeq
<1>2. I = IF id \in 1 .. Len(threads) THEN {id} ELSE {}
  BY DEF WrittenInv, IsThread
<1>3. Min({id}) = id
  BY DEF Min
<1> QED
  BY <1>1, <1>2, <1>3

\* A thread that is not written to stays as it is.
LEMMA ThreadStays ==
  ASSUME NEW i, NEW t \in Threads, NEW now \in Nat, NEW next \in Nat, IsThread(i, t, now, next)
  PROVE  IsThread(i, t, now + 1, next) /\ IsThread(i, t, now + 1, next + 1)
<1>1. t.replies \in Seq(Replies)
  BY DEF Threads
<1> QED
  BY <1>1 DEF IsThread

\* A thread with other replies, and what goes with them.
WithReplies(t, replies, count, now) ==
  [t EXCEPT !.replies = replies, !.reply_count = count, !.last_activity = now]

LEMMA WithRepliesIs ==
  ASSUME NEW t \in Threads, NEW replies \in Seq(Replies), NEW count \in Nat, NEW now \in Nat
  PROVE  WithReplies(t, replies, count, now) \in Threads
  BY DEF WithReplies, Threads

LEMMA CreateThreadStep ==
  ASSUME WrittenInv, NEW name \in Authors, CreateThread(name)
  PROVE  /\ WrittenInv'
         /\ threads' = Append(threads, NewThread(name))
         /\ NewThread(name) \in Threads
         /\ Local(name) \in Identities
<1>1. Local(name) \in Identities
  BY DEF Identities
<1>2. /\ threads \in Seq(Threads) /\ next_thread_id = Len(threads) + 1
      /\ \A i \in 1 .. Len(threads) : IsThread(i, threads[i], Now, next_reply_id)
      /\ next_reply_id \in Nat \ {0} /\ Now \in Nat /\ MaxWritten \in Nat
  BY ForumAssumption DEF WrittenInv, Now
<1>3. /\ threads' = Append(threads, NewThread(name))
      /\ next_thread_id' = next_thread_id + 1
      /\ Now' = Now + 1
      /\ Now < MaxWritten
      /\ next_reply_id' = next_reply_id
  BY <1>2 DEF CreateThread, Now
<1>4. NewThread(name) \in Threads
  BY <1>1, <1>2 DEF NewThread, Threads
<1>5. IsThread(Len(threads) + 1, NewThread(name), Now + 1, next_reply_id)
  BY <1>2, <1>3 DEF NewThread, IsThread
<1>6. /\ threads' \in Seq(Threads) /\ Len(threads') = Len(threads) + 1
      /\ \A i \in 1 .. Len(threads') :
           threads'[i] = IF i = Len(threads) + 1 THEN NewThread(name) ELSE threads[i]
  BY <1>2, <1>3, <1>4
<1>7. ASSUME NEW i \in 1 .. Len(threads') PROVE IsThread(i, threads'[i], Now', next_reply_id')
  <2>1. CASE i = Len(threads) + 1
    BY <1>3, <1>5, <1>6, <2>1
  <2>2. CASE i # Len(threads) + 1
    <3>1. i \in 1 .. Len(threads) /\ threads'[i] = threads[i] /\ threads[i] \in Threads
      BY <1>2, <1>6, <2>2
    <3> QED
      BY <1>2, <1>3, <3>1, ThreadStays
  <2> QED
    BY <2>1, <2>2
<1> QED
  BY <1>1, <1>2, <1>3, <1>4, <1>6, <1>7 DEF WrittenInv

\* A reply is added to the thread it names, which is otherwise as it was.
LEMMA ReplyStep ==
  ASSUME WrittenInv, NEW name \in Authors, NEW id \in 1 .. MaxWritten, Reply(name, id)
  PROVE  /\ WrittenInv'
         /\ id \in 1 .. Len(threads)
         /\ Local(name) \in Identities
         /\ Len(threads') = Len(threads)
         /\ \A i \in 1 .. Len(threads) :
              /\ threads'[i].author = threads[i].author
              /\ threads'[i].replies =
                   IF i = id
                     THEN Append(threads[i].replies, [id |-> next_reply_id, author |-> Local(name)])
                     ELSE threads[i].replies
<1> DEFINE new == [id |-> next_reply_id, author |-> Local(name)]
           replies == Append(threads[id].replies, new)
           thread == WithReplies(threads[id], replies, threads[id].reply_count + 1, Now + 1)
<1>1. /\ threads \in Seq(Threads) /\ next_thread_id = Len(threads) + 1
      /\ \A i \in 1 .. Len(threads) : IsThread(i, threads[i], Now, next_reply_id)
      /\ next_reply_id \in Nat \ {0} /\ Now \in Nat /\ MaxWritten \in Nat
  BY ForumAssumption DEF WrittenInv, Now
<1>2. Local(name) \in Identities /\ new \in Replies
  BY <1>1 DEF Identities, Replies
<1>3. Place(id) = id /\ id \in 1 .. Len(threads)
  BY <1>1, PlaceIs DEF Reply
<1>4. /\ next_reply_id' = next_reply_id + 1
      /\ next_thread_id' = next_thread_id
      /\ Now' = Now + 1 /\ Now < MaxWritten
  BY <1>1 DEF Reply, Now
<1>5. threads' = [threads EXCEPT ![id] = thread]
  BY <1>3 DEF Reply, AddReply, WithReplies
<1>6. threads[id] \in Threads /\ threads[id].replies \in Seq(Replies)
  <2>1. threads[id] \in Threads
    BY <1>1, <1>3
  <2> QED
    BY <2>1 DEF Threads
<1>7. /\ replies \in Seq(Replies)
      /\ Len(replies) = Len(threads[id].replies) + 1
      /\ \A j \in 1 .. Len(replies) :
           replies[j] = IF j = Len(threads[id].replies) + 1 THEN new ELSE threads[id].replies[j]
  BY <1>2, <1>6
<1>8. threads[id].reply_count \in Nat /\ threads[id].reply_count + 1 \in Nat /\ Now + 1 \in Nat
  BY <1>1, <1>6 DEF Threads
<1> HIDE DEF new, replies
<1>9. /\ thread \in Threads
      /\ thread.id = threads[id].id /\ thread.author = threads[id].author
      /\ thread.replies = replies
      /\ thread.reply_count = threads[id].reply_count + 1
      /\ thread.last_activity = Now + 1
  <2>1. thread \in Threads
    BY <1>6, <1>7, <1>8, WithRepliesIs
  <2>2. /\ thread.id = threads[id].id /\ thread.author = threads[id].author
        /\ thread.replies = replies
        /\ thread.reply_count = threads[id].reply_count + 1
        /\ thread.last_activity = Now + 1
    BY <1>6 DEF Threads, WithReplies
  <2> QED
    BY <2>1, <2>2
<1> HIDE DEF thread
<1>10. IsThread(id, thread, Now + 1, next_reply_id + 1)
  <2>1. IsThread(id, threads[id], Now, next_reply_id)
    BY <1>1, <1>3
  <2>2. new.id = next_reply_id
    BY DEF new
  <2>3. \A j \in 1 .. Len(replies) : replies[j].id \in 1 .. next_reply_id
    <3> SUFFICES ASSUME NEW j \in 1 .. Len(replies) PROVE replies[j].id \in 1 .. next_reply_id
      OBVIOUS
    <3>1. CASE j = Len(threads[id].replies) + 1
      BY <1>1, <1>7, <2>2, <3>1
    <3>2. CASE j # Len(threads[id].replies) + 1
      <4>1. j \in 1 .. Len(threads[id].replies) /\ replies[j] = threads[id].replies[j]
        BY <1>6, <1>7, <3>2
      <4> QED
        BY <1>1, <2>1, <4>1 DEF IsThread
    <3> QED
      BY <3>1, <3>2
  <2> QED
    BY <1>1, <1>6, <1>7, <1>8, <1>9, <2>1, <2>3 DEF IsThread
<1>11. /\ threads' \in Seq(Threads) /\ Len(threads') = Len(threads)
       /\ \A i \in 1 .. Len(threads) : threads'[i] = IF i = id THEN thread ELSE threads[i]
  BY <1>1, <1>3, <1>5, <1>9
<1>12. ASSUME NEW i \in 1 .. Len(threads') PROVE IsThread(i, threads'[i], Now', next_reply_id')
  <2>1. CASE i = id
    BY <1>3, <1>4, <1>10, <1>11, <2>1
  <2>2. CASE i # id
    <3>1. i \in 1 .. Len(threads) /\ threads'[i] = threads[i] /\ threads[i] \in Threads
      BY <1>1, <1>11, <2>2
    <3> QED
      BY <1>1, <1>4, <3>1, ThreadStays
  <2> QED
    BY <2>1, <2>2
<1>13. WrittenInv'
  BY <1>1, <1>4, <1>11, <1>12 DEF WrittenInv
<1>14. \A i \in 1 .. Len(threads) :
         /\ threads'[i].author = threads[i].author
         /\ threads'[i].replies =
              IF i = id THEN Append(threads[i].replies, new) ELSE threads[i].replies
  BY <1>9, <1>11 DEF replies
<1> QED
  BY <1>2, <1>3, <1>11, <1>13, <1>14 DEF new

-----------------------------------------------------------------------------
(* The forum: who wrote what *)

\* An identity is read back from how it is written, whatever its payload has in
\* it, as long as its scheme is not empty and has no colon.
THEOREM ParseUndoesWritten ==
  ASSUME NEW Characters, Colon \in Characters,
         NEW scheme \in Seq(Characters), NEW payload \in Seq(Characters),
         scheme # <<>>, \A i \in 1 .. Len(scheme) : scheme[i] # Colon
  PROVE  LET id == [scheme |-> scheme, payload |-> payload] IN Parse(Written(id)) = id
<1> DEFINE n == Len(scheme)
           w == scheme \o <<Colon>> \o payload
<1>1. /\ n \in Nat \ {0} /\ Len(payload) \in Nat
      /\ <<Colon>> \in Seq(Characters) /\ Len(<<Colon>>) = 1 /\ <<Colon>>[1] = Colon
  BY EmptySeq, LenProperties
<1>2. scheme \o <<Colon>> \in Seq(Characters) /\ Len(scheme \o <<Colon>>) = n + 1
      /\ \A i \in 1 .. n + 1 : (scheme \o <<Colon>>)[i] = IF i <= n THEN scheme[i] ELSE Colon
  BY <1>1, ConcatProperties
<1>3. /\ w \in Seq(Characters) /\ Len(w) = n + 1 + Len(payload)
      /\ \A i \in 1 .. Len(w) :
           w[i] = IF i <= n THEN scheme[i] ELSE IF i = n + 1 THEN Colon ELSE payload[i - n - 1]
  BY <1>1, <1>2, ConcatProperties
<1>4. Written([scheme |-> scheme, payload |-> payload]) = w
  BY DEF Written
<1> HIDE DEF w
<1>5. DOMAIN w = 1 .. Len(w)
  BY <1>3
<1>6. n + 1 \in Colons(w) /\ \A i \in Colons(w) : n + 1 <= i
  BY <1>1, <1>3, <1>5 DEF Colons
<1>7. Colons(w) \subseteq Nat
  BY <1>5 DEF Colons
<1>8. (CHOOSE i \in Colons(w) : \A j \in Colons(w) : i <= j) = n + 1
  <2>1. ASSUME NEW i \in Colons(w), \A j \in Colons(w) : i <= j PROVE i = n + 1
    BY <1>1, <1>6, <1>7, <2>1
  <2> QED
    BY <1>6, <2>1
<1>9. w[1] # Colon
  BY <1>1, <1>3
<1>10. SubSeq(w, 1, n + 1 - 1) = scheme
  <2>1. SubSeq(w, 1, n) \in Seq(Characters) /\ Len(SubSeq(w, 1, n)) = n
    BY <1>1, <1>3
  <2>2. \A i \in 1 .. n : SubSeq(w, 1, n)[i] = scheme[i]
    BY <1>1, <1>3
  <2>3. n + 1 - 1 = n
    BY <1>1
  <2> QED
    BY <2>1, <2>2, <2>3, SeqEqual
<1>11. SubSeq(w, n + 1 + 1, Len(w)) = payload
  <2> DEFINE p == SubSeq(w, n + 2, Len(w))
  <2>1. p \in Seq(Characters) /\ Len(p) = Len(payload)
    BY <1>1, <1>3
  <2>2. ASSUME NEW i \in 1 .. Len(payload) PROVE p[i] = payload[i]
    <3>1. n + 1 + i \in 1 .. Len(w) /\ ~(n + 1 + i <= n) /\ n + 1 + i # n + 1
      BY <1>1, <1>3
    <3>2. n + 1 + i - n - 1 = i /\ n + 2 + i - 1 = n + 1 + i /\ n + 2 \in Int
          /\ Len(w) - (n + 2) + 1 = Len(payload)
      BY <1>1, <1>3
    <3>3. w[n + 1 + i] = payload[i]
      BY <1>3, <3>1, <3>2
    <3>4. p[i] = w[n + 2 + i - 1]
      BY <1>1, <1>3, <3>2
    <3> QED
      BY <3>2, <3>3, <3>4
  <2>3. n + 1 + 1 = n + 2
    BY <1>1
  <2> HIDE DEF p
  <2>4. p = payload
    BY <2>1, <2>2, SeqEqual
  <2> QED
    BY <2>3, <2>4 DEF p
<1>12. Parse(w) = SplitAt(w, n + 1)
  <2>1. Parse(w) = SplitAt(w, CHOOSE i \in Colons(w) : \A j \in Colons(w) : i <= j)
    BY <1>6, <1>9 DEF Parse
  <2> QED
    BY <1>8, <2>1
<1>13. SplitAt(w, n + 1) = [scheme |-> scheme, payload |-> payload]
  <2>1. SplitAt(w, n + 1) =
          [scheme |-> SubSeq(w, 1, n + 1 - 1), payload |-> SubSeq(w, n + 1 + 1, Len(w))]
    BY DEF SplitAt
  <2> QED
    BY <1>10, <1>11, <2>1, Zenon
<1> QED
  BY <1>4, <1>12, <1>13

LEMMA IdentitiesAreRead == \A id \in Identities : Parse(Written(id)) = id
<1> SUFFICES ASSUME NEW name \in Authors PROVE Parse(Written(Local(name))) = Local(name)
  BY DEF Identities
<1> DEFINE Characters == STRING \cup {"l", Colon}
<1>1. <<"l">> \in Seq(Characters) /\ <<"l">> # <<>> /\ Colon \in Characters
  OBVIOUS
<1>3. name \in Seq(Characters)
  BY ForumAssumption, SeqMonotonic
<1>2. \A i \in 1 .. Len(<<"l">>) : <<"l">>[i] # Colon
  BY DEF Colon
<1> QED
  BY <1>1, <1>2, <1>3, ParseUndoesWritten DEF Local

LEMMA CountPostStep ==
  ASSUME CountedInv, NEW id \in Identities, CountPost(id)
  PROVE  /\ users' \in [DOMAIN users' -> Nat \ {0}] /\ DOMAIN users' \subseteq Identities
         /\ \A i \in Identities : Count(i)' = IF i = id THEN Count(i) + 1 ELSE Count(i)
  BY DEF CountedInv, CountPost, Count

\* The replies under an identity, one by one.
IsReply(r, ts) ==
  \E i \in 1 .. Len(ts) : \E j \in 1 .. Len(ts[i].replies) : r = ts[i].replies[j]

LEMMA RepliesAre ==
  ASSUME NEW ts \in Seq(Threads), NEW id
  PROVE  {r \in UNION {ToSet(ts[i].replies) : i \in DOMAIN ts} : r.author = id}
           = {r \in Replies : r.author = id /\ IsReply(r, ts)}
<1> DEFINE L == {r \in UNION {ToSet(ts[i].replies) : i \in DOMAIN ts} : r.author = id}
           R == {r \in Replies : r.author = id /\ IsReply(r, ts)}
<1>1. DOMAIN ts = 1 .. Len(ts)
  OBVIOUS
<1>2. ASSUME NEW i \in 1 .. Len(ts)
      PROVE  /\ DOMAIN ts[i].replies = 1 .. Len(ts[i].replies)
             /\ \A j \in 1 .. Len(ts[i].replies) : ts[i].replies[j] \in Replies
  <2>1. ts[i] \in Threads
    OBVIOUS
  <2>2. ts[i].replies \in Seq(Replies)
    BY <2>1 DEF Threads
  <2> QED
    BY <2>2
<1>3. ASSUME NEW r \in L PROVE r \in R
  BY <1>1, <1>2 DEF ToSet, IsReply
<1>4. ASSUME NEW r \in R PROVE r \in L
  BY <1>1, <1>2 DEF ToSet, IsReply
<1> QED
  BY <1>3, <1>4

LEMMA CountedInit == ForumInit => CountedInv
<1> SUFFICES ASSUME ForumInit PROVE CountedInv
  OBVIOUS
<1>1. \A id : StartedBy(id) = {} /\ RepliesBy(id) = {}
  BY DEF ForumInit, StartedBy, RepliesBy
<1>2. DOMAIN users = {} /\ users \in [{} -> Nat \ {0}]
  BY DEF ForumInit
<1> QED
  BY <1>1, <1>2, FS_EmptySet DEF CountedInv, Count

LEMMA CountedCreateThread ==
  ASSUME WrittenInv, CountedInv, NEW name \in Authors, CreateThread(name)
  PROVE  CountedInv'
<1> DEFINE author == Local(name)
<1>1. /\ threads \in Seq(Threads) /\ author \in Identities /\ CountPost(author)
      /\ threads' = Append(threads, NewThread(name)) /\ NewThread(name) \in Threads
      /\ WrittenInv'
  BY CreateThreadStep DEF WrittenInv, CreateThread
<1>2. /\ Len(threads') = Len(threads) + 1
      /\ DOMAIN threads = 1 .. Len(threads) /\ DOMAIN threads' = 1 .. Len(threads')
      /\ \A i \in 1 .. Len(threads) : threads'[i] = threads[i]
      /\ threads'[Len(threads) + 1] = NewThread(name)
  BY <1>1
<1>3. NewThread(name).author = author /\ NewThread(name).replies = <<>>
  BY DEF NewThread
<1>4. ASSUME NEW id \in Identities
      PROVE  StartedBy(id)' = IF id = author THEN StartedBy(id) \cup {Len(threads) + 1}
                                             ELSE StartedBy(id)
  BY <1>2, <1>3 DEF StartedBy
<1>5. ASSUME NEW id \in Identities PROVE RepliesBy(id)' = RepliesBy(id)
  <2>1. ASSUME NEW r PROVE IsReply(r, threads') <=> IsReply(r, threads)
    <3>1. IsReply(r, threads) => IsReply(r, threads')
      BY <1>1, <1>2 DEF IsReply
    <3>2. ASSUME NEW i \in 1 .. Len(threads'), NEW j \in 1 .. Len(threads'[i].replies),
                 r = threads'[i].replies[j]
          PROVE  IsReply(r, threads)
      <4>1. i # Len(threads) + 1
        BY <1>2, <1>3
      <4>2. i \in 1 .. Len(threads) /\ threads'[i] = threads[i]
        BY <1>1, <1>2, <4>1
      <4> QED
        BY <3>2, <4>2 DEF IsReply
    <3> QED
      BY <3>1, <3>2 DEF IsReply
  <2>2. threads' \in Seq(Threads)
    BY <1>1
  <2>3. RepliesBy(id)' = {r \in Replies : r.author = id /\ IsReply(r, threads')}
    BY <2>2, RepliesAre DEF RepliesBy
  <2>4. RepliesBy(id) = {r \in Replies : r.author = id /\ IsReply(r, threads)}
    BY <1>1, RepliesAre DEF RepliesBy
  <2> QED
    BY <2>1, <2>3, <2>4
<1>6. ASSUME NEW id \in Identities
      PROVE  /\ IsFiniteSet(StartedBy(id))' /\ IsFiniteSet(RepliesBy(id))'
             /\ Count(id)' = Cardinality(StartedBy(id))' + Cardinality(RepliesBy(id))'
  <2>1. /\ IsFiniteSet(StartedBy(id)) /\ IsFiniteSet(RepliesBy(id))
        /\ Count(id) = Cardinality(StartedBy(id)) + Cardinality(RepliesBy(id))
    BY DEF CountedInv
  <2>2. Cardinality(StartedBy(id)) \in Nat /\ Cardinality(RepliesBy(id)) \in Nat
    BY <2>1, FS_CardinalityType
  <2>3. Len(threads) + 1 \notin StartedBy(id)
    BY <1>1, <1>2 DEF StartedBy
  <2>4. /\ IsFiniteSet(StartedBy(id) \cup {Len(threads) + 1})
        /\ Cardinality(StartedBy(id) \cup {Len(threads) + 1}) = Cardinality(StartedBy(id)) + 1
    BY <2>1, <2>3, FS_AddElement
  <2>5. Count(id)' = IF id = author THEN Count(id) + 1 ELSE Count(id)
    BY <1>1, CountPostStep
  <2> HIDE DEF author
  <2>6. CASE id = author
    <3>1. StartedBy(id)' = StartedBy(id) \cup {Len(threads) + 1}
      BY <1>4, <2>6
    <3> QED
      BY <1>5, <2>1, <2>2, <2>4, <2>5, <2>6, <3>1
  <2>7. CASE id # author
    BY <1>4, <1>5, <2>1, <2>5, <2>7
  <2> QED
    BY <2>6, <2>7
<1> QED
  BY <1>1, <1>6, CountPostStep DEF CountedInv

LEMMA CountedReply ==
  ASSUME WrittenInv, CountedInv, NEW name \in Authors, NEW id \in 1 .. MaxWritten, Reply(name, id)
  PROVE  CountedInv'
<1> DEFINE author == Local(name)
           new == [id |-> next_reply_id, author |-> author]
<1>1. /\ threads \in Seq(Threads) /\ threads' \in Seq(Threads) /\ CountPost(author)
      /\ author \in Identities /\ id \in 1 .. Len(threads)
      /\ Len(threads') = Len(threads)
      /\ \A i \in 1 .. Len(threads) : threads'[i].author = threads[i].author
      /\ next_reply_id \in Nat
      /\ \A i \in 1 .. Len(threads) : IsThread(i, threads[i], Now, next_reply_id)
  BY ReplyStep DEF WrittenInv, Reply
<1>2. \A i \in 1 .. Len(threads) : threads'[i].replies =
         IF i = id THEN Append(threads[i].replies, new) ELSE threads[i].replies
  BY ReplyStep
<1>3. new \in Replies /\ new.author = author /\ new.id = next_reply_id
  BY <1>1 DEF Replies
<1> HIDE DEF new
<1>4. ASSUME NEW i \in 1 .. Len(threads)
      PROVE  threads[i].replies \in Seq(Replies)
  <2>1. threads[i] \in Threads
    BY <1>1
  <2> QED
    BY <2>1 DEF Threads
<1>5. ASSUME NEW r PROVE IsReply(r, threads') <=> IsReply(r, threads) \/ r = new
  <2>1. ASSUME NEW s \in Seq(Replies)
        PROVE  /\ Len(s) \in Nat /\ Len(Append(s, new)) = Len(s) + 1
               /\ \A j \in 1 .. Len(s) : Append(s, new)[j] = s[j]
               /\ Append(s, new)[Len(s) + 1] = new
    BY <1>3, AppendProperties
  <2>2. ASSUME NEW i \in 1 .. Len(threads)
        PROVE  /\ Len(threads[i].replies) \in Nat
               /\ Len(threads'[i].replies) =
                    IF i = id THEN Len(threads[i].replies) + 1 ELSE Len(threads[i].replies)
               /\ \A j \in 1 .. Len(threads[i].replies) :
                    threads'[i].replies[j] = threads[i].replies[j]
               /\ i = id => threads'[i].replies[Len(threads[i].replies) + 1] = new
    BY <1>2, <1>4, <2>1
  <2>3. IsReply(new, threads')
    <3>1. /\ Len(threads'[id].replies) = Len(threads[id].replies) + 1
          /\ threads'[id].replies[Len(threads[id].replies) + 1] = new
          /\ Len(threads[id].replies) \in Nat
      BY <1>1, <2>2
    <3> QED
      BY <1>1, <3>1 DEF IsReply
  <2>4. ASSUME NEW i \in 1 .. Len(threads), NEW j \in 1 .. Len(threads[i].replies),
               r = threads[i].replies[j]
        PROVE  IsReply(r, threads')
    <3>1. j \in 1 .. Len(threads'[i].replies) /\ threads'[i].replies[j] = r
      BY <2>4, <2>2
    <3> QED
      BY <1>1, <3>1 DEF IsReply
  <2>5. ASSUME NEW i \in 1 .. Len(threads'), NEW j \in 1 .. Len(threads'[i].replies),
               r = threads'[i].replies[j], r # new
        PROVE  IsReply(r, threads)
    <3>1. j \in 1 .. Len(threads[i].replies) /\ threads[i].replies[j] = r
      BY <1>1, <2>5, <2>2
    <3> QED
      BY <1>1, <3>1 DEF IsReply
  <2> QED
    BY <2>3, <2>4, <2>5 DEF IsReply
<1>6. ~IsReply(new, threads)
  BY <1>1, <1>3 DEF IsReply, IsThread
<1>7. ASSUME NEW i \in Identities
      PROVE  /\ RepliesBy(i)' = IF i = author THEN RepliesBy(i) \cup {new} ELSE RepliesBy(i)
             /\ new \notin RepliesBy(i)
  <2>1. RepliesBy(i)' = {r \in Replies : r.author = i /\ IsReply(r, threads')}
    BY <1>1, RepliesAre DEF RepliesBy
  <2>2. RepliesBy(i) = {r \in Replies : r.author = i /\ IsReply(r, threads)}
    BY <1>1, RepliesAre DEF RepliesBy
  <2> QED
    BY <1>3, <1>5, <1>6, <2>1, <2>2
<1>8. ASSUME NEW i \in Identities PROVE StartedBy(i)' = StartedBy(i)
  BY <1>1 DEF StartedBy
<1>9. ASSUME NEW i \in Identities
      PROVE  /\ IsFiniteSet(StartedBy(i))' /\ IsFiniteSet(RepliesBy(i))'
             /\ Count(i)' = Cardinality(StartedBy(i))' + Cardinality(RepliesBy(i))'
  <2>1. /\ IsFiniteSet(StartedBy(i)) /\ IsFiniteSet(RepliesBy(i))
        /\ Count(i) = Cardinality(StartedBy(i)) + Cardinality(RepliesBy(i))
    BY DEF CountedInv
  <2>2. Cardinality(StartedBy(i)) \in Nat /\ Cardinality(RepliesBy(i)) \in Nat
    BY <2>1, FS_CardinalityType
  <2>3. /\ IsFiniteSet(RepliesBy(i) \cup {new})
        /\ Cardinality(RepliesBy(i) \cup {new}) = Cardinality(RepliesBy(i)) + 1
    BY <1>7, <2>1, FS_AddElement
  <2>4. Count(i)' = IF i = author THEN Count(i) + 1 ELSE Count(i)
    BY <1>1, CountPostStep
  <2> QED
    BY <1>7, <1>8, <2>1, <2>2, <2>3, <2>4
<1> QED
  BY <1>1, <1>9, CountPostStep DEF CountedInv

-----------------------------------------------------------------------------
(* The forum: paging through a list *)

\* Both kinds of list: threads, the newest first; replies as they came.
ListsInv ==
  /\ \A list \in 0 .. Len(threads) :
       Listed(list) \in Seq(1 .. MaxWritten) /\ Len(Listed(list)) <= MaxWritten
  /\ Len(Listed(ThreadList)) = Len(threads)
  /\ \A i \in 1 .. Len(threads) : Listed(ThreadList)[i] = Len(threads) - i + 1
  /\ \A list \in 1 .. Len(threads) :
       /\ Len(Listed(list)) = Len(threads[list].replies)
       /\ \A j \in 1 .. Len(threads[list].replies) : Listed(list)[j] = threads[list].replies[j].id

LEMMA ListsAre == WrittenInv => ListsInv
<1> SUFFICES ASSUME WrittenInv PROVE ListsInv
  OBVIOUS
<1> DEFINE n == Len(threads)
<1>1. /\ threads \in Seq(Threads) /\ next_thread_id = n + 1
      /\ \A i \in 1 .. n : IsThread(i, threads[i], Now, next_reply_id)
      /\ next_reply_id \in Nat \ {0} /\ Now <= MaxWritten /\ MaxWritten \in Nat
      /\ n \in Nat /\ DOMAIN threads = 1 .. n
  BY ForumAssumption DEF WrittenInv
<1>2. n <= MaxWritten /\ next_reply_id - 1 <= MaxWritten
  BY <1>1 DEF Now
<1>3. /\ Listed(ThreadList) \in Seq(1 .. MaxWritten)
      /\ Len(Listed(ThreadList)) = n
      /\ \A i \in 1 .. n : Listed(ThreadList)[i] = n - i + 1
  <2> DEFINE ids == Ids(threads)
  <2>1. ids \in Seq(1 .. MaxWritten) /\ Len(ids) = n /\ \A i \in 1 .. n : ids[i] = i
    BY <1>1, <1>2 DEF Ids, IsThread
  <2> HIDE DEF ids
  <2>2. Listed(ThreadList) = Reverse(ids)
    BY DEF Listed, NewestThreads, ids
  <2>3. Reverse(ids) = [i \in 1 .. n |-> n - i + 1]
    BY <1>1, <2>1 DEF Reverse
  <2> QED
    BY <1>1, <1>2, <2>2, <2>3
<1>4. ASSUME NEW list \in 1 .. n
      PROVE  /\ Listed(list) \in Seq(1 .. MaxWritten) /\ Len(Listed(list)) <= MaxWritten
             /\ Len(Listed(list)) = Len(threads[list].replies)
             /\ \A j \in 1 .. Len(threads[list].replies) :
                  Listed(list)[j] = threads[list].replies[j].id
  <2> DEFINE replies == threads[list].replies
  <2>1. threads[list] \in Threads /\ IsThread(list, threads[list], Now, next_reply_id)
    BY <1>1
  <2>2. replies \in Seq(Replies) /\ Len(replies) < next_reply_id
        /\ \A j \in 1 .. Len(replies) : replies[j].id \in 1 .. next_reply_id - 1
    BY <2>1 DEF Threads, IsThread
  <2>3. Listed(list) = Ids(replies)
    BY <1>1, PlaceIs DEF Listed, ThreadList
  <2> HIDE DEF replies
  <2>4. DOMAIN replies = 1 .. Len(replies) /\ Len(replies) \in Nat
    BY <2>2
  <2>5. Ids(replies) = [j \in 1 .. Len(replies) |-> replies[j].id]
    BY <2>4 DEF Ids
  <2>6. \A j \in 1 .. Len(replies) : replies[j].id \in 1 .. MaxWritten
    BY <1>1, <1>2, <2>2
  <2>7. Ids(replies) \in Seq(1 .. MaxWritten) /\ Len(Ids(replies)) = Len(replies)
    BY <2>4, <2>5, <2>6
  <2> QED
    BY <1>1, <1>2, <2>2, <2>3, <2>4, <2>5, <2>7 DEF replies
<1>5. ASSUME NEW list \in 0 .. n
      PROVE  Listed(list) \in Seq(1 .. MaxWritten) /\ Len(Listed(list)) <= MaxWritten
  <2>1. CASE list = ThreadList
    BY <1>1, <1>2, <1>3, <2>1
  <2>2. CASE list # ThreadList
    <3>1. list \in 1 .. n
      BY <1>1, <2>2 DEF ThreadList
    <3> QED
      BY <1>4, <3>1
  <2> QED
    BY <2>1, <2>2
<1> QED
  BY <1>3, <1>4, <1>5 DEF ListsInv, n

\* A page of a list that goes on where it starts.
LEMMA PageIs ==
  ASSUME NEW s \in Seq(1 .. MaxWritten), Len(s) <= MaxWritten,
         NEW page \in Nat, page > 0, NEW perPage \in 1 .. PerPageCap,
         NEW offset \in Nat, offset = (page - 1) * perPage, offset = 0 \/ offset < Len(s)
  PROVE  Page(s, page, perPage) =
           SubSeq(s, offset + 1, IF offset + perPage <= Len(s) THEN offset + perPage ELSE Len(s))
<1>1. MaxWritten \in Nat /\ PerPageCap \in Nat \ {0} /\ U32 \in Nat
      /\ U32 > PerPageCap * (MaxWritten + 1)
  BY ForumAssumption
<1>2. PerPageCap * (MaxWritten + 1) >= MaxWritten + 1
  BY <1>1
<1>3. offset < U32
  BY <1>1, <1>2
<1>4. ((page - 1) * perPage) % U32 = offset
  <2>1. \A n, k \in Nat : n < k => n % k = n
    OBVIOUS
  <2>2. offset % U32 = offset
    BY <1>1, <1>3, <2>1
  <2> QED
    BY <2>2
<1>5. Min({offset + perPage, Len(s)}) =
        IF offset + perPage <= Len(s) THEN offset + perPage ELSE Len(s)
  <2>1. offset + perPage \in Int /\ Len(s) \in Int
    OBVIOUS
  <2> QED
    BY <2>1, MinOfTwo
<1> QED
  BY <1>4, <1>5 DEF Page

LEMMA PerPageIs ==
  ASSUME WalkInv
  PROVE  PerPage \in 1 .. PerPageCap /\ Offset \in Int
<1>1. walk.asked \in Nat \ {0} /\ PerPageCap \in Nat \ {0} /\ walk.page \in Nat
  BY ForumAssumption DEF WalkInv
<1>2. PerPage \in 1 .. PerPageCap
  BY <1>1, MinOfTwo DEF PerPage
<1> QED
  BY <1>1, <1>2 DEF Offset

LEMMA WalkInit == ForumInit => WalkInv
<1> SUFFICES ASSUME ForumInit PROVE WalkInv
  OBVIOUS
<1>1. threads = <<>> /\ walk = NoWalk
  BY DEF ForumInit
<1> QED
  BY <1>1 DEF WalkInv, NoWalk, WalkIsDone, ThreadList

\* Somebody writes while a list is paged through: no list loses anything, and
\* those of replies do not move.
LEMMA WalkStays ==
  ASSUME WalkInv, ListsInv, ListsInv', UNCHANGED walk,
         Len(threads) \in Nat, Len(threads') \in Nat, Len(threads) <= Len(threads'),
         \A list \in 1 .. Len(threads) :
           /\ Len(Listed(list)) <= Len(Listed(list)')
           /\ \A j \in 1 .. Len(Listed(list)) : Listed(list)'[j] = Listed(list)[j]
  PROVE  WalkInv'
<1> DEFINE list == walk.list
           L == Listed(list)
           M == Listed(list)'
<1>1. /\ list \in 0 .. Len(threads) /\ list \in 0 .. Len(threads')
      /\ walk \in [list : 0 .. Len(threads), asked : Nat \ {0}, page : Nat, more : BOOLEAN,
                   due : SUBSET Nat, seen : Seq(1 .. MaxWritten)]
  BY DEF WalkInv
<1>2. UNCHANGED <<walk, Offset, WalkIsDone>>
  BY DEF Offset, PerPage, WalkIsDone
<1>3. L \in Seq(1 .. MaxWritten) /\ M \in Seq(1 .. MaxWritten)
  BY <1>1 DEF ListsInv
<1>4. Len(L) <= Len(M) /\ (list # ThreadList => \A j \in 1 .. Len(L) : M[j] = L[j])
  BY <1>1 DEF ListsInv, ThreadList
<1>5. ToSet(L) \subseteq ToSet(M)
  <2>1. CASE list = ThreadList
    <3>1. ASSUME NEW i \in 1 .. Len(L) PROVE L[i] \in ToSet(M)
      <4>1. L[i] = Len(threads) - i + 1 /\ Len(L) = Len(threads) /\ Len(M) = Len(threads')
        BY <2>1 DEF ListsInv
      <4> DEFINE j == Len(threads') - L[i] + 1
      <4>2. j \in 1 .. Len(M) /\ M[j] = L[i]
        BY <1>3, <2>1, <4>1 DEF ListsInv
      <4> QED
        BY <1>3, <4>2, ToSetIs
    <3> QED
      BY <1>3, <3>1, ToSetIs
  <2>2. CASE list # ThreadList
    <3>1. \A i \in 1 .. Len(L) : i \in 1 .. Len(M)
      BY <1>3, <1>4
    <3> QED
      BY <1>3, <1>4, <2>2, <3>1, ToSetIs
  <2> QED
    BY <2>1, <2>2
<1>6. list # ThreadList => IsPrefix(walk.seen, L) /\ IsPrefix(walk.seen, M)
  <2> SUFFICES ASSUME list # ThreadList PROVE IsPrefix(walk.seen, L) /\ IsPrefix(walk.seen, M)
    OBVIOUS
  <2>1. IsPrefix(walk.seen, L) /\ walk.seen \in Seq(1 .. MaxWritten)
    BY <1>1 DEF WalkInv
  <2>2. Len(walk.seen) <= Len(L) /\ \A i \in 1 .. Len(walk.seen) : walk.seen[i] = L[i]
    BY <1>3, <2>1, PrefixIs
  <2>3. Len(walk.seen) <= Len(M) /\ \A i \in 1 .. Len(walk.seen) : walk.seen[i] = M[i]
    BY <1>3, <1>4, <2>1, <2>2
  <2> QED
    BY <1>3, <2>1, <2>3, PrefixIs
<1>7. Listed(walk.list)' = M
  BY <1>2
<1> HIDE DEF L, M
<1>8. /\ walk' \in [list : 0 .. Len(threads'), asked : Nat \ {0}, page : Nat, more : BOOLEAN,
                    due : SUBSET Nat, seen : Seq(1 .. MaxWritten)]
      /\ walk.more => walk.page > 0
  BY <1>1, <1>2 DEF WalkInv
<1>9. /\ walk.page > 0 => walk.due \subseteq ToSet(M)
      /\ walk.more => Offset = 0 \/ Offset < Len(M)
  <2>1. walk.page > 0 => walk.due \subseteq ToSet(L)
    BY DEF WalkInv, L
  <2>2. walk.more => Offset = 0 \/ Offset < Len(L)
    BY DEF WalkInv, L
  <2>3. Len(L) \in Nat /\ Len(M) \in Nat /\ Offset \in Int
    BY <1>3, PerPageIs
  <2> QED
    BY <1>4, <1>5, <2>1, <2>2, <2>3
<1>10. list = ThreadList /\ walk.more =>
         \A x \in walk.due : x > Len(threads') - Offset => x \in ToSet(walk.seen)
  BY <1>1, PerPageIs DEF WalkInv
<1> QED
  BY <1>2, <1>6, <1>7, <1>8, <1>9, <1>10 DEF WalkInv

LEMMA ListedSame ==
  ASSUME threads' = threads, NEW list
  PROVE  Listed(list)' = Listed(list)
  BY DEF Listed, NewestThreads, Place, SelectInSeq, Ids

LEMMA WalkStarts ==
  ASSUME WrittenInv, WalkInv, StartWalk
  PROVE  WalkInv'
<1>12. ListsInv
  BY ListsAre
<1>1. threads' = threads
  BY DEF StartWalk
<1>2. PICK list \in {ThreadList} \cup ToSet(Ids(threads)), asked \in Asked :
        walk' = [list |-> list, asked |-> asked, page |-> 1, more |-> TRUE,
                 due |-> ToSet(Listed(list)), seen |-> <<>>]
  BY DEF StartWalk
<1>3. list \in 0 .. Len(threads) /\ asked \in Nat \ {0} /\ Len(threads) \in Nat
  <2>1. DOMAIN threads = 1 .. Len(threads) /\ Len(threads) \in Nat
    BY DEF WrittenInv
  <2>2. ToSet(Ids(threads)) \subseteq 1 .. Len(threads)
    BY <2>1 DEF ToSet, Ids, WrittenInv, IsThread
  <2> QED
    BY <2>1, <2>2, ForumAssumption DEF ThreadList
<1>4. Listed(list)' = Listed(list) /\ Listed(list) \in Seq(1 .. MaxWritten)
  BY <1>12, <1>1, <1>3, ListedSame DEF ListsInv
<1>5. ToSet(Listed(list)) \subseteq Nat
  <2>1. ToSet(Listed(list)) \subseteq 1 .. MaxWritten
    BY <1>4, ToSetIs
  <2> QED
    BY <2>1
<1>6. walk' \in [list : 0 .. Len(threads'), asked : Nat \ {0}, page : Nat, more : BOOLEAN,
                 due : SUBSET Nat, seen : Seq(1 .. MaxWritten)]
  BY <1>1, <1>2, <1>3, <1>5
<1>7. Offset' = 0
  <2>1. PerPage' \in Int
    BY <1>2, <1>3, MinOfTwo, ForumAssumption DEF PerPage
  <2>2. walk'.page = 1
    BY <1>2
  <2>3. Offset' = (1 - 1) * PerPage'
    BY <2>2 DEF Offset
  <2>4. \A m \in Int : (1 - 1) * m = 0
    OBVIOUS
  <2> QED
    BY <2>1, <2>3, <2>4
<1>8. list # ThreadList => IsPrefix(<<>>, Listed(list))
  <2>1. Len(<<>>) = 0 /\ Len(Listed(list)) \in Nat
    BY <1>4
  <2>2. SubSeq(<<>>, 1, 0) = <<>> /\ SubSeq(Listed(list), 1, 0) = <<>>
    BY SubSeqEmpty
  <2> QED
    BY <2>1, <2>2 DEF IsPrefix
<1>9. list = ThreadList => \A x \in ToSet(Listed(list)) : x <= Len(threads)
  <2> SUFFICES ASSUME list = ThreadList, NEW i \in 1 .. Len(Listed(list))
               PROVE  Listed(list)[i] <= Len(threads)
    BY <1>4, ToSetIs
  <2> QED
    BY <1>12, <1>3 DEF ListsInv
<1>10. WalkIsDone' = FALSE /\ walk'.more = TRUE /\ walk'.page = 1 /\ walk'.list = list
       /\ walk'.seen = <<>> /\ walk'.due = ToSet(Listed(list))
  BY <1>2 DEF WalkIsDone
<1>11. Listed(walk.list)' = Listed(list)
  BY <1>4, <1>10
<1> QED
  BY <1>1, <1>3, <1>5, <1>6, <1>7, <1>8, <1>9, <1>10, <1>11 DEF WalkInv

LEMMA WalkGoesOn ==
  ASSUME WrittenInv, WalkInv, GetPage
  PROVE  WalkInv'
<1> DEFINE list == walk.list
           L == Listed(list)
           n == Len(L)
           p == PerPage
           o == Offset
           e == IF o + p <= n THEN o + p ELSE n
           items == SubSeq(L, o + 1, e)
<1>1. ListsInv /\ Len(threads) \in Nat
  BY ListsAre DEF WrittenInv
<1>2. walk \in [list : 0 .. Len(threads), asked : Nat \ {0}, page : Nat, more : BOOLEAN,
                due : SUBSET Nat, seen : Seq(1 .. MaxWritten)]
  BY DEF WalkInv
<1>3. walk.more /\ walk.page \in Nat /\ walk.page > 0
  BY <1>2 DEF GetPage, WalkInv
<1>4. list \in 0 .. Len(threads) /\ L \in Seq(1 .. MaxWritten) /\ n <= MaxWritten /\ n \in Nat
  BY <1>1, <1>2 DEF ListsInv
<1>5. p \in 1 .. PerPageCap /\ p \in Nat /\ o \in Nat /\ (o = 0 \/ o < n)
  <2>1. p \in 1 .. PerPageCap /\ p \in Nat
    BY PerPageIs, ForumAssumption
  <2>2. o = (walk.page - 1) * p /\ walk.page - 1 \in Nat
    BY <1>3 DEF Offset
  <2>3. \A k, m \in Nat : k * m \in Nat
    OBVIOUS
  <2>4. o \in Nat
    BY <2>1, <2>2, <2>3
  <2>5. o = 0 \/ o < n
    BY <1>3 DEF WalkInv
  <2> QED
    BY <2>1, <2>4, <2>5
<1>6. walk.page * p = o + p
  BY <1>3, <1>5 DEF Offset
<1>7. Page(L, walk.page, p) = items
  BY <1>3, <1>4, <1>5, PageIs DEF Offset
<1>8. /\ walk' = [walk EXCEPT !.seen = @ \o items, !.more = o + p < n, !.page = @ + 1]
      /\ threads' = threads
  BY <1>6, <1>7 DEF GetPage
<1>9. /\ walk'.list = list /\ walk'.asked = walk.asked /\ walk'.due = walk.due
      /\ walk'.seen = walk.seen \o items
      /\ walk'.page = walk.page + 1
      /\ walk'.more \in BOOLEAN /\ (walk'.more <=> o + p < n)
  <2>1. /\ walk'.list = list /\ walk'.asked = walk.asked /\ walk'.due = walk.due
        /\ walk'.seen = walk.seen \o items
        /\ walk'.page = walk.page + 1
        /\ walk'.more = (o + p < n)
    BY <1>2, <1>8
  <2> DEFINE more == o + p < n
  <2>2. more \in BOOLEAN /\ walk'.more = more
    BY <2>1
  <2> HIDE DEF more
  <2>3. walk'.more \in BOOLEAN /\ (walk'.more <=> more)
    BY <2>2, Zenon
  <2> QED
    BY <2>1, <2>3 DEF more
<1>10. PerPage' = p /\ Offset' = o + p
  <2>1. PerPage' = p
    BY <1>9 DEF PerPage
  <2>2. Offset' = walk.page * p
    BY <1>3, <1>9, <2>1 DEF Offset
  <2> QED
    BY <1>6, <2>1, <2>2
<1>11. Listed(walk.list)' = L
  BY <1>8, <1>9, ListedSame
<1>12. e \in Nat /\ e <= n /\ e - o \in Nat
  BY <1>4, <1>5
<1> HIDE DEF L, o, p, e
<1>13. /\ items \in Seq(1 .. MaxWritten) /\ Len(items) = e - o
       /\ \A i \in 1 .. e - o : items[i] = L[o + i]
  <2>1. ASSUME NEW i \in o + 1 .. e PROVE L[i] \in 1 .. MaxWritten
    <3>1. i \in 1 .. Len(L)
      BY <1>4, <1>5, <1>12
    <3> QED
      BY <1>4, <3>1, ElementOfSeq
  <2> QED
    BY <1>4, <1>5, <1>12, <2>1, SubSeqProperties
<1> HIDE DEF items
<1>14. /\ walk.seen \in Seq(1 .. MaxWritten) /\ walk'.seen \in Seq(1 .. MaxWritten)
       /\ Len(walk.seen) \in Nat
       /\ Len(walk'.seen) = Len(walk.seen) + (e - o)
       /\ \A i \in 1 .. Len(walk'.seen) :
            walk'.seen[i] = IF i <= Len(walk.seen) THEN walk.seen[i] ELSE items[i - Len(walk.seen)]
  <2>1. walk.seen \in Seq(1 .. MaxWritten) /\ walk'.seen = walk.seen \o items
    BY <1>2, <1>9
  <2>2. Len(walk.seen) \in Nat /\ Len(items) \in Nat
    BY <1>13, <2>1, LenProperties
  <2>3. items \in Seq(1 .. MaxWritten) /\ Len(items) = e - o
    BY <1>13
  <2>4. \A s, t \in Seq(1 .. MaxWritten) :
          /\ s \o t \in Seq(1 .. MaxWritten)
          /\ Len(s \o t) = Len(s) + Len(t)
          /\ \A i \in 1 .. Len(s) + Len(t) : (s \o t)[i] = IF i <= Len(s) THEN s[i] ELSE t[i - Len(s)]
    BY ConcatProperties
  <2>5. /\ walk'.seen \in Seq(1 .. MaxWritten)
        /\ Len(walk'.seen) = Len(walk.seen) + Len(items)
    BY <2>1, <2>3, <2>4
  <2>6. ASSUME NEW i \in 1 .. Len(walk.seen) + Len(items)
        PROVE  (walk.seen \o items)[i] =
                 IF i <= Len(walk.seen) THEN walk.seen[i] ELSE items[i - Len(walk.seen)]
    BY <2>1, <2>3, <2>4
  <2> QED
    BY <2>1, <2>2, <2>3, <2>5, <2>6
<1>15. walk' \in [list : 0 .. Len(threads'), asked : Nat \ {0}, page : Nat, more : BOOLEAN,
                  due : SUBSET Nat, seen : Seq(1 .. MaxWritten)]
  <2>1. walk' = [walk EXCEPT !.seen = walk'.seen, !.more = walk'.more, !.page = walk'.page]
    BY <1>2, <1>8
  <2>2. walk'.more \in BOOLEAN /\ walk'.page \in Nat /\ walk'.seen \in Seq(1 .. MaxWritten)
    BY <1>3, <1>9, <1>14
  <2> QED
    BY <1>2, <1>8, <2>1, <2>2
<1>16. ToSet(walk.seen) \subseteq ToSet(walk'.seen)
  BY <1>12, <1>14, ToSetIs
<1>17. \A k \in o + 1 .. e : L[k] \in ToSet(walk'.seen)
  <2> SUFFICES ASSUME NEW k \in o + 1 .. e PROVE L[k] \in ToSet(walk'.seen)
    OBVIOUS
  <2> DEFINE i == Len(walk.seen) + (k - o)
  <2>1. i \in 1 .. Len(walk'.seen) /\ i > Len(walk.seen) /\ i - Len(walk.seen) = k - o
    BY <1>5, <1>12, <1>14
  <2>2. walk'.seen[i] = L[k]
    <3>1. k - o \in 1 .. e - o /\ items[k - o] = L[o + (k - o)] /\ o + (k - o) = k
      BY <1>5, <1>12, <1>13
    <3> HIDE DEF i
    <3>2. walk'.seen[i] = items[i - Len(walk.seen)]
      <4>1. \A m \in 1 .. Len(walk'.seen) :
              walk'.seen[m] = IF m <= Len(walk.seen) THEN walk.seen[m] ELSE items[m - Len(walk.seen)]
        BY <1>14
      <4>2. ~ (i <= Len(walk.seen))
        BY <1>14, <2>1
      <4> QED
        BY <2>1, <4>1, <4>2
    <3> QED
      BY <2>1, <3>1, <3>2
  <2> HIDE DEF i
  <2> QED
    BY <1>14, <2>1, <2>2, ToSetIs
<1>18. o + p < n => e = o + p
  BY <1>4, <1>5 DEF e
<1>19. ~(o + p < n) => e = n
  BY <1>4, <1>5 DEF e
<1>20. ASSUME walk.due \subseteq ToSet(L),
              list # ThreadList => IsPrefix(walk'.seen, L) /\ (o + p < n => Len(walk'.seen) = o + p),
              list = ThreadList /\ o + p < n =>
                \A x \in walk.due : x > Len(threads) - (o + p) => x \in ToSet(walk'.seen),
              ~(o + p < n) => walk.due \subseteq ToSet(walk'.seen)
       PROVE  WalkInv'
  <2> USE <1>8, <1>9, <1>10, <1>11, <1>15, <1>20
  <2>1. walk'.page > 0 /\ (walk'.more => o + p < n)
    BY <1>3
  <2>2. (walk.page > 0 => walk.due \subseteq ToSet(Listed(walk.list)))'
    OBVIOUS
  <2>3. (walk.more => Offset = 0 \/ Offset < Len(Listed(walk.list)))'
    BY <2>1
  <2>4. (walk.list # ThreadList =>
           /\ IsPrefix(walk.seen, Listed(walk.list))
           /\ walk.more => Len(walk.seen) = Offset)'
    BY <2>1 DEF ThreadList
  <2>5. (walk.list = ThreadList /\ walk.more =>
           \A x \in walk.due : x > Len(threads) - Offset => x \in ToSet(walk.seen))'
    BY <2>1 DEF ThreadList
  <2>6. (WalkIsDone => walk.due \subseteq ToSet(walk.seen))'
    BY DEF WalkIsDone
  <2> QED
    BY <2>1, <2>2, <2>3, <2>4, <2>5, <2>6 DEF WalkInv
<1>21. CASE list # ThreadList
  <2>1. IsPrefix(walk.seen, L) /\ Len(walk.seen) = o
    BY <1>3, <1>21 DEF WalkInv, L, o
  <2>2. \A i \in 1 .. o : walk.seen[i] = L[i]
    BY <1>4, <1>14, <2>1, PrefixIs
  <2>3. Len(walk'.seen) = e
    BY <1>5, <1>12, <1>14, <2>1
  <2>4. \A i \in 1 .. e : walk'.seen[i] = L[i]
    BY <1>5, <1>12, <1>13, <1>14, <2>1, <2>2, <2>3
  <2>5. IsPrefix(walk'.seen, L)
    BY <1>4, <1>12, <1>14, <2>3, <2>4, PrefixIs
  <2>6. ~(o + p < n) => ToSet(L) \subseteq ToSet(walk'.seen)
    BY <1>4, <1>14, <1>19, <2>3, <2>4, ToSetIs
  <2>7. walk.due \subseteq ToSet(L)
    BY <1>3 DEF WalkInv, L
  <2> QED
    BY <1>9, <1>18, <1>20, <1>21, <2>3, <2>5, <2>6, <2>7
<1>22. CASE list = ThreadList
  <2>1. n = Len(threads) /\ \A i \in 1 .. n : L[i] = n - i + 1
    BY <1>1, <1>22 DEF ListsInv, L
  <2>2. walk.due \subseteq ToSet(L) /\ walk.due \subseteq Nat
    BY <1>2, <1>3 DEF WalkInv, L
  <2>3. \A x \in walk.due : x > n - o => x \in ToSet(walk.seen)
    BY <1>3, <1>22, <2>1 DEF WalkInv, o
  <2>4. ASSUME NEW x \in walk.due, x > n - e PROVE x \in ToSet(walk'.seen)
    <3>1. x \in 1 .. n
      <4>1. PICK i \in 1 .. n : x = L[i]
        BY <1>4, <2>2, ToSetIs
      <4> QED
        BY <1>4, <2>1, <4>1
    <3>2. CASE x > n - o
      BY <1>16, <2>3, <3>2
    <3>3. CASE ~(x > n - o)
      <4>1. n - x + 1 \in o + 1 .. e /\ L[n - x + 1] = x
        BY <1>4, <1>5, <1>12, <2>1, <2>4, <3>1, <3>3
      <4> QED
        BY <1>17, <4>1
    <3> QED
      BY <3>2, <3>3
  <2>5. o + p < n => \A x \in walk.due : x > n - (o + p) => x \in ToSet(walk'.seen)
    BY <1>18, <2>4
  <2>6. ~(o + p < n) => walk.due \subseteq ToSet(walk'.seen)
    <3> SUFFICES ASSUME ~(o + p < n), NEW x \in walk.due PROVE x \in ToSet(walk'.seen)
      OBVIOUS
    <3>1. x \in 1 .. n
      <4>1. PICK i \in 1 .. n : x = L[i]
        BY <1>4, <2>2, ToSetIs
      <4> QED
        BY <1>4, <2>1, <4>1
    <3> QED
      BY <1>4, <1>19, <2>4, <3>1
  <2> QED
    BY <1>8, <1>9, <1>20, <1>22, <2>1, <2>2, <2>5, <2>6
<1> QED
  BY <1>21, <1>22

LEMMA WalkEnds ==
  ASSUME WrittenInv, WalkInv, EndWalk
  PROVE  WalkInv'
<1>1. threads' = threads /\ walk' = NoWalk /\ Len(threads) \in Nat
  BY DEF EndWalk, WrittenInv
<1> QED
  BY <1>1 DEF WalkInv, NoWalk, WalkIsDone, ThreadList

\* A list of replies is as it was, or longer.
LEMMA RepliesStay ==
  ASSUME WrittenInv, WrittenInv', Len(threads) <= Len(threads'),
         \A i \in 1 .. Len(threads) :
           /\ Len(threads[i].replies) <= Len(threads'[i].replies)
           /\ \A j \in 1 .. Len(threads[i].replies) : threads'[i].replies[j] = threads[i].replies[j],
         WalkInv, UNCHANGED walk
  PROVE  WalkInv'
<1>1. ListsInv /\ Len(threads) \in Nat /\ Len(threads') \in Nat
  BY ListsAre DEF WrittenInv
<1>2. ListsInv'
  BY ListsAre, PTL
<1>3. ASSUME NEW i \in 1 .. Len(threads) PROVE Len(threads[i].replies) \in Nat
  <2>1. threads[i] \in Threads
    BY DEF WrittenInv
  <2> QED
    BY <2>1 DEF Threads
<1>4. ASSUME NEW i \in 1 .. Len(threads') PROVE Len(threads'[i].replies) \in Nat
  <2>1. threads'[i] \in Threads
    BY DEF WrittenInv
  <2> QED
    BY <2>1 DEF Threads
<1>5. ASSUME NEW list \in 1 .. Len(threads)
      PROVE  /\ Len(Listed(list)) <= Len(Listed(list)')
             /\ \A j \in 1 .. Len(Listed(list)) : Listed(list)'[j] = Listed(list)[j]
  <2>1. /\ Len(Listed(list)) = Len(threads[list].replies)
        /\ \A j \in 1 .. Len(threads[list].replies) : Listed(list)[j] = threads[list].replies[j].id
    BY <1>1 DEF ListsInv
  <2>2. list \in 1 .. Len(threads')
    BY <1>1
  <2>3. /\ Len(Listed(list)') = Len(threads'[list].replies)
        /\ \A j \in 1 .. Len(threads'[list].replies) :
             Listed(list)'[j] = threads'[list].replies[j].id
    BY <1>2, <2>2 DEF ListsInv
  <2>4. Len(threads[list].replies) \in Nat /\ Len(threads'[list].replies) \in Nat
    BY <1>3, <1>4, <2>2
  <2> QED
    BY <2>1, <2>3, <2>4
<1> QED
  BY <1>1, <1>2, <1>5, WalkStays

LEMMA WalkCreateThread ==
  ASSUME WrittenInv, WalkInv, NEW name \in Authors, CreateThread(name)
  PROVE  WalkInv'
<1>1. /\ WrittenInv' /\ threads \in Seq(Threads)
      /\ threads' = Append(threads, NewThread(name)) /\ NewThread(name) \in Threads
      /\ UNCHANGED walk
  BY CreateThreadStep DEF WrittenInv, CreateThread
<1>2. /\ Len(threads) \in Nat /\ Len(threads') = Len(threads) + 1
      /\ \A i \in 1 .. Len(threads) : threads'[i] = threads[i]
  BY <1>1
<1>3. ASSUME NEW i \in 1 .. Len(threads) PROVE Len(threads[i].replies) \in Nat
  <2>1. threads[i] \in Threads
    BY <1>1
  <2> QED
    BY <2>1 DEF Threads
<1>4. Len(threads) <= Len(threads')
  BY <1>2
<1>5. \A i \in 1 .. Len(threads) :
        /\ Len(threads[i].replies) <= Len(threads'[i].replies)
        /\ \A j \in 1 .. Len(threads[i].replies) : threads'[i].replies[j] = threads[i].replies[j]
  BY <1>2, <1>3
<1> QED
  BY <1>1, <1>4, <1>5, RepliesStay

LEMMA WalkReply ==
  ASSUME WrittenInv, WalkInv, NEW name \in Authors, NEW id \in 1 .. MaxWritten, Reply(name, id)
  PROVE  WalkInv'
<1> DEFINE new == [id |-> next_reply_id, author |-> Local(name)]
<1>1. /\ WrittenInv' /\ threads \in Seq(Threads) /\ UNCHANGED walk
      /\ Len(threads') = Len(threads) /\ Len(threads) \in Nat
      /\ Local(name) \in Identities /\ next_reply_id \in Nat
  <2>1. threads \in Seq(Threads) /\ next_reply_id \in Nat /\ UNCHANGED walk
    BY DEF WrittenInv, Reply
  <2>2. WrittenInv' /\ Len(threads') = Len(threads) /\ Local(name) \in Identities
    BY ReplyStep
  <2>3. Len(threads) \in Nat
    BY <2>1
  <2> QED
    BY <2>1, <2>2, <2>3
<1>2. \A i \in 1 .. Len(threads) : threads'[i].replies =
         IF i = id THEN Append(threads[i].replies, new) ELSE threads[i].replies
  BY ReplyStep
<1>3. new \in Replies
  BY <1>1 DEF Replies
<1> HIDE DEF new
<1>4. ASSUME NEW i \in 1 .. Len(threads)
      PROVE  /\ Len(threads[i].replies) <= Len(threads'[i].replies)
             /\ \A j \in 1 .. Len(threads[i].replies) :
                  threads'[i].replies[j] = threads[i].replies[j]
  <2>1. threads[i] \in Threads
    BY <1>1
  <2>2. threads[i].replies \in Seq(Replies)
    BY <2>1 DEF Threads
  <2>3. Len(threads[i].replies) \in Nat
    BY <2>2
  <2>4. /\ Len(Append(threads[i].replies, new)) = Len(threads[i].replies) + 1
        /\ \A j \in 1 .. Len(threads[i].replies) :
             Append(threads[i].replies, new)[j] = threads[i].replies[j]
    BY <1>3, <2>2, AppendProperties
  <2>5. CASE i = id
    <3>1. threads'[i].replies = Append(threads[i].replies, new)
      BY <1>2, <2>5
    <3> QED
      BY <2>3, <2>4, <3>1
  <2>6. CASE i # id
    BY <1>2, <2>3, <2>6
  <2> QED
    BY <2>5, <2>6
<1> QED
  BY <1>1, <1>4, RepliesStay

LEMMA ForumInvStep == ForumInv /\ [ForumNext]_forumVars => ForumInv'
<1> SUFFICES ASSUME WrittenInv, CountedInv, WalkInv, [ForumNext]_forumVars PROVE ForumInv'
  BY DEF ForumInv
<1> USE DEF ForumInv
<1>1. ASSUME UNCHANGED <<threads, users, next_thread_id, next_reply_id>>
      PROVE  WrittenInv' /\ CountedInv'
  <2>1. WrittenInv'
    BY <1>1 DEF WrittenInv, Now
  <2>2. \A id : StartedBy(id)' = StartedBy(id) /\ RepliesBy(id)' = RepliesBy(id)
    BY <1>1 DEF StartedBy, RepliesBy
  <2> QED
    BY <1>1, <2>1, <2>2 DEF CountedInv, Count
<1>2. CASE UNCHANGED forumVars
  <2>1. UNCHANGED <<threads, users, next_thread_id, next_reply_id, walk>>
    BY <1>2 DEF forumVars
  <2>2. ListsInv /\ WrittenInv' /\ CountedInv' /\ Len(threads) \in Nat
    BY <1>1, <2>1, ListsAre DEF WrittenInv
  <2>3. ASSUME NEW i \in 1 .. Len(threads)
        PROVE  /\ Len(threads[i].replies) <= Len(threads'[i].replies)
               /\ \A j \in 1 .. Len(threads[i].replies) :
                    threads'[i].replies[j] = threads[i].replies[j]
    <3>1. threads[i] \in Threads
      BY DEF WrittenInv
    <3>2. Len(threads[i].replies) \in Nat
      BY <3>1 DEF Threads
    <3> QED
      BY <2>1, <3>2
  <2> QED
    BY <2>1, <2>2, <2>3, RepliesStay
<1>3. ASSUME NEW name \in Authors, CreateThread(name) PROVE ForumInv'
  BY <1>3, CreateThreadStep, CountedCreateThread, WalkCreateThread
<1>4. ASSUME NEW name \in Authors, NEW id \in 1 .. MaxWritten, Reply(name, id) PROVE ForumInv'
  BY <1>4, ReplyStep, CountedReply, WalkReply
<1>5. CASE StartWalk
  BY <1>1, <1>5, WalkStarts DEF StartWalk
<1>6. CASE GetPage
  BY <1>1, <1>6, WalkGoesOn DEF GetPage
<1>7. CASE EndWalk
  BY <1>1, <1>7, WalkEnds DEF EndWalk
<1> QED
  BY <1>2, <1>3, <1>4, <1>5, <1>6, <1>7 DEF ForumNext

LEMMA ForumAlways == Spec => []ForumInv
<1>1. Init => ForumInv
  BY WrittenInit, CountedInit, WalkInit DEF Init, ForumInv
<1>2. [Next]_vars => [ForumNext]_forumVars
  BY DEF Next, vars
<1> QED
  BY <1>1, <1>2, ForumInvStep, PTL DEF Spec

\* What the forum counts is what was written: the posts of each user, who is
\* found under the identity, and the replies of each thread.
THEOREM PostsAreCounted == Spec => []PostsAreAccountedFor
<1>1. ForumInv => PostsAreAccountedFor
  <2> SUFFICES ASSUME ForumInv PROVE PostsAreAccountedFor
    OBVIOUS
  <2>1. ASSUME NEW id \in DOMAIN users
        PROVE  /\ users[id] = Cardinality(StartedBy(id)) + Cardinality(RepliesBy(id))
               /\ users[id] > 0
               /\ Parse(Written(id)) = id /\ HasProfile(Written(id))
    <3>1. id \in Identities /\ users[id] \in Nat \ {0}
      BY DEF ForumInv, CountedInv
    <3>2. Parse(Written(id)) = id
      BY <3>1, IdentitiesAreRead
    <3> QED
      BY <3>1, <3>2 DEF ForumInv, CountedInv, Count, HasProfile
  <2>2. ASSUME NEW i \in DOMAIN threads
        PROVE  threads[i].reply_count = Len(threads[i].replies)
    BY DEF ForumInv, WrittenInv, IsThread
  <2> QED
    BY <2>1, <2>2 DEF PostsAreAccountedFor
<1> QED
  BY <1>1, ForumAlways, PTL

\* Paging through a list gives all that was in it when the first page was asked
\* for, although others write meanwhile, and replies once each and in order.
THEOREM NothingIsPagedOver == Spec => []WalksMissNothing
<1>1. ForumInv => WalksMissNothing
  BY DEF ForumInv, WalkInv, WalksMissNothing, WalkIsDone
<1> QED
  BY <1>1, ForumAlways, PTL

-----------------------------------------------------------------------------
(* The microblog *)

\* Posts are numbered from 1.  A reader has what its ids say, and what it has
\* missed was already too old for a timeline.
BlogInv ==
  /\ posts \in Seq(1 .. MaxPosts)
  /\ \A i \in 1 .. Len(posts) : posts[i] = i
  /\ next_id = Len(posts) + 1
  /\ following \subseteq Targets
  /\ fetchedAt \in 0 .. Len(posts)
  /\ newest = fetchedAt
  /\ got \cup gaps = 1 .. fetchedAt
  /\ got \cap gaps = {}
  /\ \A g \in gaps : g + TimelineLength <= fetchedAt

\* What a timeline has: the newest posts, the last first.
LEMMA TimelineIs ==
  ASSUME BlogInv
  PROVE  LET n == Len(posts)
             k == IF TimelineLength <= n THEN TimelineLength ELSE n
         IN  /\ Len(Timeline) = k
             /\ ToSet(Timeline) = n - k + 1 .. n
             /\ k > 0 => Head(Timeline) = n /\ Last(Timeline) = n - k + 1
<1> DEFINE n == Len(posts)
           k == IF TimelineLength <= n THEN TimelineLength ELSE n
           R == Reverse(posts)
<1>1. n \in Nat /\ k \in 0 .. n
  BY MicroblogAssumption DEF BlogInv
<1>2. R \in Seq(Nat) /\ Len(R) = n /\ \A i \in 1 .. n : R[i] = n - i + 1
  BY <1>1 DEF BlogInv, Reverse
<1>3. Timeline = SubSeq(R, 1, k)
  <2>1. Timeline = Taken(R)
    BY DEF Timeline
  <2> HIDE DEF R
  <2>2. Min({TimelineLength, Len(R)}) = k
    <3>1. Len(R) \in Int /\ TimelineLength \in Int
      BY <1>1, <1>2, MicroblogAssumption
    <3>2. Min({TimelineLength, Len(R)}) = IF TimelineLength <= Len(R) THEN TimelineLength ELSE Len(R)
      BY <3>1, MinOfTwo
    <3> QED
      BY <1>2, <3>2
  <2> QED
    BY <2>1, <2>2 DEF Taken
<1> HIDE DEF R
<1>4. Len(Timeline) = k /\ \A i \in 1 .. k : Timeline[i] = n - i + 1
  BY <1>1, <1>2, <1>3
<1>5. DOMAIN Timeline = 1 .. k
  BY <1>1, <1>2, <1>3
<1>6. ToSet(Timeline) = n - k + 1 .. n
  <2>1. ASSUME NEW x \in n - k + 1 .. n PROVE x \in ToSet(Timeline)
    <3>1. n - x + 1 \in 1 .. k /\ Timeline[n - x + 1] = x
      BY <1>1, <1>4
    <3> QED
      BY <1>5, <3>1 DEF ToSet
  <2>2. ASSUME NEW x \in ToSet(Timeline) PROVE x \in n - k + 1 .. n
    BY <1>1, <1>4, <1>5 DEF ToSet
  <2> QED
    BY <2>1, <2>2
<1>7. k > 0 => Head(Timeline) = n /\ Last(Timeline) = n - k + 1
  <2>1. Timeline \in Seq(Nat)
    BY <1>1, <1>2, <1>3
  <2> QED
    BY <1>1, <1>4, <2>1 DEF Last
<1> QED
  BY <1>4, <1>6, <1>7

LEMMA BlogInvInit == BlogInit => BlogInv
  BY MicroblogAssumption DEF BlogInit, BlogInv

LEMMA BlogInvStep == BlogInv /\ [BlogNext]_microblogVars => BlogInv'
<1> SUFFICES ASSUME BlogInv, [BlogNext]_microblogVars PROVE BlogInv'
  OBVIOUS
<1> USE DEF BlogInv
<1>1. CASE UNCHANGED microblogVars
  BY <1>1 DEF microblogVars
<1>2. CASE CreatePost
  BY <1>2, MicroblogAssumption DEF CreatePost, readerVars
<1>3. ASSUME NEW target \in Targets, Follow(target) \/ Unfollow(target) PROVE BlogInv'
  BY <1>3 DEF Follow, Unfollow, readerVars
<1>4. CASE Fetch
  <2> DEFINE n == Len(posts)
             k == IF TimelineLength <= n THEN TimelineLength ELSE n
  <2>1. n \in Nat /\ k \in 0 .. n /\ fetchedAt \in 0 .. n
    BY MicroblogAssumption
  <2>2. n # 0
    <3>1. Timeline # <<>>
      BY <1>4 DEF Fetch
    <3>2. ASSUME n = 0 PROVE posts = <<>>
      BY <3>2
    <3>3. Reverse(<<>>) = <<>> /\ Taken(<<>>) = <<>>
      BY DEF Reverse, Taken
    <3> QED
      BY <3>1, <3>2, <3>3 DEF Timeline
  <2>3. k > 0
    BY <2>1, <2>2, MicroblogAssumption
  <2>4. /\ ToSet(Timeline) = n - k + 1 .. n
        /\ Head(Timeline) = n /\ Last(Timeline) = n - k + 1
    BY <2>3, TimelineIs
  <2>5. /\ got' = got \cup (n - k + 1 .. n)
        /\ gaps' = gaps \cup (fetchedAt + 1 .. n - k)
        /\ newest' = n /\ fetchedAt' = n
        /\ UNCHANGED <<posts, next_id, following>>
    BY <1>4, <2>1, <2>4 DEF Fetch
  <2>6. (got \cup gaps)' = 1 .. n
    BY <2>1, <2>3, <2>5
  <2>7. \A g \in gaps' : g + TimelineLength <= n
    BY <2>1, <2>5, MicroblogAssumption
  <2>8. (got \cap gaps)' = {}
    <3>1. ASSUME NEW g \in gaps' PROVE g <= n - k
      BY <2>1, <2>5, <3>1, MicroblogAssumption
    <3>2. ASSUME NEW g \in gaps', g \in got' PROVE FALSE
      BY <2>1, <2>5, <3>1, <3>2
    <3> QED
      BY <3>2
  <2> QED
    BY <2>1, <2>5, <2>6, <2>7, <2>8
<1> QED
  BY <1>1, <1>2, <1>3, <1>4 DEF BlogNext

LEMMA BlogAlways == Spec => []BlogInv
<1>1. Init => BlogInv
  BY BlogInvInit DEF Init
<1>2. [Next]_vars => [BlogNext]_microblogVars
  BY DEF Next, vars
<1> QED
  BY <1>1, <1>2, BlogInvStep, PTL DEF Spec

\* A reader of the timeline that goes by the ids knows exactly what it has
\* missed, however long a timeline is and however many posts come between.
THEOREM MissedPostsAreKnown == Spec => []GapsAreNoticed
<1>1. BlogInv => GapsAreNoticed
  BY DEF BlogInv, GapsAreNoticed
<1> QED
  BY <1>1, BlogAlways, PTL

-----------------------------------------------------------------------------
(* Type correctness *)

\* Every variable of both servers has its type, and the ids of threads and posts
\* are handed out in order.
THEOREM BoardTypes == Spec => []TypeOK
<1>1. ForumInv => ForumTypeOK
  <2> SUFFICES ASSUME ForumInv PROVE ForumTypeOK
    OBVIOUS
  <2>1. /\ DOMAIN threads = 1 .. Len(threads) /\ Len(threads) \in Nat
        /\ next_thread_id = Len(threads) + 1 /\ next_reply_id \in Nat \ {0}
        /\ \A i \in 1 .. Len(threads) : IsThread(i, threads[i], Now, next_reply_id)
        /\ Now <= MaxWritten
    BY DEF ForumInv, WrittenInv
  <2>2. Ids(threads) = [i \in 1 .. next_thread_id - 1 |-> i]
    BY <2>1 DEF Ids, IsThread
  <2>3. \A i \in DOMAIN threads : threads[i].last_activity \in 1 .. Now
    BY <2>1 DEF IsThread
  <2>4. DOMAIN users \subseteq {Local(name) : name \in Authors}
    BY DEF ForumInv, CountedInv, Identities
  <2>5. next_reply_id \in 1 .. MaxWritten + 1
    BY <2>1, ForumAssumption DEF Now
  <2>6. walk.seen \in Seq(1 .. MaxWritten)
    BY DEF ForumInv, WalkInv
  <2> QED
    BY <2>2, <2>3, <2>4, <2>5, <2>6, ToSetIs DEF ForumTypeOK
<1>2. BlogInv => BlogTypeOK
  <2> SUFFICES ASSUME BlogInv PROVE BlogTypeOK
    OBVIOUS
  <2>1. ToSet(posts) = 1 .. Len(posts) /\ Len(posts) \in Nat
    <3>1. ToSet(posts) = {posts[i] : i \in 1 .. Len(posts)}
      BY ToSetIs DEF BlogInv
    <3> QED
      BY <3>1 DEF BlogInv
  <2> QED
    BY <2>1 DEF BlogInv, BlogTypeOK
<1> QED
  BY <1>1, <1>2, ForumAlways, BlogAlways, PTL DEF TypeOK

=============================================================================
