--------------------------- MODULE SequenceLemmas ----------------------------
(***************************************************************************)
(* Facts about the operators of the community modules that the models are  *)
(* built from, and about sequences, which the proofs of several components *)
(* need.                                                                   *)
(***************************************************************************)
EXTENDS Integers, SequencesExt, FiniteSets, SequenceTheorems, FiniteSetTheorems,
        WellFoundedInduction, TLAPS

-----------------------------------------------------------------------------
(* Least elements *)

\* The smaller of two numbers.
LEMMA MinOfTwo ==
  ASSUME NEW a \in Int, NEW b \in Int
  PROVE  Min({a, b}) = IF a <= b THEN a ELSE b
<1>1. Min({a, b}) \in {a, b} /\ \A y \in {a, b} : Min({a, b}) <= y
  <2>1. \E x \in {a, b} : \A y \in {a, b} : x <= y
    <3>1. CASE a <= b
      BY <3>1
    <3>2. CASE b <= a
      BY <3>2
    <3> QED
      BY <3>1, <3>2
  <2> QED
    BY <2>1 DEF Min
<1> QED
  BY <1>1

\* Any set of numbers with something in it has a least element.
LEMMA LeastNumber ==
  ASSUME NEW S \in SUBSET Nat, S # {}
  PROVE  \E n \in S : \A m \in S : n <= m
<1> DEFINE Less == {ss \in Nat \X Nat : ss[1] < ss[2]}
<1>1. IsWellFoundedOn(Less, Nat)
  BY NatLessThanWellFounded DEF OpToRel
<1>2. \A m, n \in Nat : m < n => <<m, n>> \in Less
  OBVIOUS
<1> HIDE DEF Less
<1>3. PICK n \in S : \A m \in S : ~ (<<m, n>> \in Less)
  BY <1>1, WFMin
<1>4. \A m \in S : ~(m < n)
  BY <1>2, <1>3
<1> QED
  BY <1>4

\* Induction: a set with zero and the successor of each of its numbers has them all.
LEMMA Induction ==
  ASSUME NEW S, 0 \in S, \A n \in Nat : n \in S => n + 1 \in S
  PROVE  \A n \in Nat : n \in S
<1> SUFFICES ASSUME Nat \ S # {} PROVE FALSE
  OBVIOUS
<1>1. PICK n \in Nat \ S : \A m \in Nat \ S : n <= m
  BY LeastNumber
<1>2. n - 1 \in Nat /\ n - 1 \in S
  BY <1>1
<1> QED
  BY <1>1, <1>2

-----------------------------------------------------------------------------
(* Sequences *)

\* A prefix, element by element.
LEMMA PrefixIs ==
  ASSUME NEW S, NEW s \in Seq(S), NEW t \in Seq(S)
  PROVE  IsPrefix(s, t) <=> Len(s) <= Len(t) /\ \A i \in 1 .. Len(s) : s[i] = t[i]
<1>1. SubSeq(s, 1, Len(s)) = s
  BY SubSeqFull
<1>2. ASSUME Len(s) <= Len(t)
      PROVE  /\ SubSeq(t, 1, Len(s)) \in Seq(S) /\ Len(SubSeq(t, 1, Len(s))) = Len(s)
             /\ \A i \in 1 .. Len(s) : SubSeq(t, 1, Len(s))[i] = t[i]
  BY <1>2
<1>3. ASSUME Len(s) <= Len(t), \A i \in 1 .. Len(s) : s[i] = t[i]
      PROVE  SubSeq(t, 1, Len(s)) = s
  BY <1>2, <1>3, SeqEqual
<1> QED
  BY <1>1, <1>2, <1>3 DEF IsPrefix

\* What is in a sequence.
LEMMA ToSetIs ==
  ASSUME NEW S, NEW s \in Seq(S)
  PROVE  /\ ToSet(s) = {s[i] : i \in 1 .. Len(s)}
         /\ ToSet(s) \subseteq S
<1>1. DOMAIN s = 1 .. Len(s)
  OBVIOUS
<1> QED
  BY <1>1 DEF ToSet

\* A sequence over a set is one over any larger set.
LEMMA SeqWider ==
  ASSUME NEW S, NEW T, S \subseteq T, NEW s \in Seq(S)
  PROVE  s \in Seq(T)
OBVIOUS

\* What is in a sequence after something was appended, and before its head is taken.
LEMMA ToSetAppend ==
  ASSUME NEW S, NEW s \in Seq(S), NEW x \in S
  PROVE  ToSet(Append(s, x)) = ToSet(s) \cup {x}
<1>1. /\ Append(s, x) \in Seq(S) /\ Len(Append(s, x)) = Len(s) + 1
      /\ Append(s, x)[Len(s) + 1] = x /\ \A i \in 1 .. Len(s) : Append(s, x)[i] = s[i]
  BY AppendProperties
<1>2. /\ ToSet(s) = {s[i] : i \in 1 .. Len(s)}
      /\ ToSet(Append(s, x)) = {Append(s, x)[i] : i \in 1 .. Len(Append(s, x))}
  BY <1>1, ToSetIs
<1>3. \A i \in 1 .. Len(s) + 1 : i \in 1 .. Len(s) \/ i = Len(s) + 1
  OBVIOUS
<1>4. \A i \in 1 .. Len(s) : i \in 1 .. Len(s) + 1
  OBVIOUS
<1>5. Len(s) + 1 \in 1 .. Len(s) + 1
  OBVIOUS
<1> HIDE DEF ToSet
<1> QED
  BY <1>1, <1>2, <1>3, <1>4, <1>5

LEMMA ToSetTail ==
  ASSUME NEW S, NEW s \in Seq(S), s # <<>>
  PROVE  ToSet(s) = ToSet(Tail(s)) \cup {Head(s)}
<1>1. /\ Tail(s) \in Seq(S) /\ Len(Tail(s)) = Len(s) - 1 /\ Len(s) \in Nat \ {0}
      /\ Head(s) = s[1] /\ \A i \in 1 .. Len(s) - 1 : Tail(s)[i] = s[i + 1]
  BY HeadTailProperties
<1>2. /\ ToSet(s) = {s[i] : i \in 1 .. Len(s)}
      /\ ToSet(Tail(s)) = {Tail(s)[i] : i \in 1 .. Len(Tail(s))}
  BY <1>1, ToSetIs
<1>3. \A i \in 1 .. Len(s) : i = 1 \/ (i - 1 \in 1 .. Len(s) - 1 /\ Tail(s)[i - 1] = s[i])
  BY <1>1
<1>4. \A i \in 1 .. Len(s) - 1 : i + 1 \in 1 .. Len(s)
  OBVIOUS
<1>5. 1 \in 1 .. Len(s)
  BY <1>1
<1> QED
  BY <1>1, <1>2, <1>3, <1>4, <1>5

-----------------------------------------------------------------------------
(* Sequences of numbers in order *)

Rises(s) == \A i, j \in 1 .. Len(s) : i < j => s[i] < s[j]

\* A window of at most c elements when n is pushed to it: the oldest makes room.
Pushed(w, n, c) == IF Len(w) >= c THEN Append(Tail(w), n) ELSE Append(w, n)

LEMMA PushIs ==
  ASSUME NEW S, NEW w \in Seq(S), NEW n \in S, NEW c \in Nat \ {0}, Len(w) <= c
  PROVE  LET r == Pushed(w, n, c) IN
         /\ r \in Seq(S) /\ Len(r) \in 1 .. c /\ r[Len(r)] = n
         /\ \E o \in {0, 1} : \A i \in 1 .. Len(r) - 1 : i + o \in 1 .. Len(w) /\ r[i] = w[i + o]
<1> DEFINE r == Pushed(w, n, c)
<1>1. CASE Len(w) >= c
  <2>1. w # <<>> /\ Len(w) = c
    BY <1>1
  <2>2. Tail(w) \in Seq(S) /\ Len(Tail(w)) = c - 1 /\ \A i \in 1 .. c - 1 : Tail(w)[i] = w[i + 1]
    BY <2>1, HeadTailProperties
  <2>3. /\ r \in Seq(S) /\ Len(r) = c /\ r[c] = n
        /\ \A i \in 1 .. c - 1 : r[i] = Tail(w)[i]
    BY <1>1, <2>2, AppendProperties DEF Pushed
  <2>4. \A i \in 1 .. Len(r) - 1 : i + 1 \in 1 .. Len(w) /\ r[i] = w[i + 1]
    BY <2>1, <2>2, <2>3
  <2> QED
    BY <2>3, <2>4
<1>2. CASE Len(w) < c
  <2>1. /\ r \in Seq(S) /\ Len(r) = Len(w) + 1 /\ r[Len(w) + 1] = n
        /\ \A i \in 1 .. Len(w) : r[i] = w[i]
    BY <1>2, AppendProperties DEF Pushed
  <2>2. \A i \in 1 .. Len(r) - 1 : i + 0 \in 1 .. Len(w) /\ r[i] = w[i + 0]
    BY <2>1
  <2> QED
    BY <1>2, <2>1, <2>2
<1> QED
  BY <1>1, <1>2

\* What a window has after a push.
LEMMA PushHas ==
  ASSUME NEW S, NEW w \in Seq(S), NEW n \in S, NEW c \in Nat \ {0}, Len(w) <= c
  PROVE  n \in ToSet(Pushed(w, n, c)) /\ ToSet(Pushed(w, n, c)) \subseteq ToSet(w) \cup {n}
<1>1. ASSUME NEW v \in Seq(S), Len(v) \in Nat \ {0}, v[Len(v)] = n, NEW o \in {0, 1},
             \A i \in 1 .. Len(v) - 1 : i + o \in 1 .. Len(w) /\ v[i] = w[i + o]
      PROVE  n \in ToSet(v) /\ ToSet(v) \subseteq ToSet(w) \cup {n}
  <2>1. ToSet(w) = {w[i] : i \in 1 .. Len(w)} /\ ToSet(v) = {v[i] : i \in 1 .. Len(v)}
    BY ToSetIs
  <2>2. \A i \in 1 .. Len(v) : v[i] = n \/ v[i] \in ToSet(w)
    <3>1. \A i \in 1 .. Len(v) : i \in 1 .. Len(v) - 1 \/ i = Len(v)
      BY <1>1
    <3> QED
      BY <1>1, <2>1, <3>1
  <2> QED
    BY <1>1, <2>1, <2>2
<1> DEFINE r == Pushed(w, n, c)
<1>2. /\ r \in Seq(S) /\ Len(r) \in 1 .. c /\ r[Len(r)] = n
      /\ \E o \in {0, 1} : \A i \in 1 .. Len(r) - 1 : i + o \in 1 .. Len(w) /\ r[i] = w[i + o]
  BY PushIs
<1> HIDE DEF r
<1>3. n \in ToSet(r) /\ ToSet(r) \subseteq ToSet(w) \cup {n}
  BY <1>1, <1>2
<1> QED
  BY <1>3 DEF r

\* In order, save for numbers in L.
RisesBut(s, L) == \A i, j \in 1 .. Len(s) : i < j => s[i] < s[j] \/ s[j] \in L

\* A window in order stays so when what is pushed comes after all it has, or is in L.
LEMMA PushKeepsOrderBut ==
  ASSUME NEW S \in SUBSET Nat, NEW w \in Seq(S), NEW n \in S, NEW c \in Nat \ {0}, Len(w) <= c,
         NEW L, RisesBut(w, L), n \in L \/ \A i \in 1 .. Len(w) : w[i] < n
  PROVE  RisesBut(Pushed(w, n, c), L)
<1> DEFINE r == Pushed(w, n, c)
<1>1. /\ r \in Seq(S) /\ Len(r) \in 1 .. c /\ r[Len(r)] = n
      /\ \E o \in {0, 1} : \A i \in 1 .. Len(r) - 1 : i + o \in 1 .. Len(w) /\ r[i] = w[i + o]
  BY PushIs
<1> HIDE DEF r
<1>2. Len(r) \in Nat \ {0} /\ r[Len(r)] = n
  BY <1>1
<1>3. PICK o \in {0, 1} : \A i \in 1 .. Len(r) - 1 : i + o \in 1 .. Len(w) /\ r[i] = w[i + o]
  BY <1>1
<1>4. SUFFICES ASSUME NEW i \in 1 .. Len(r), NEW j \in 1 .. Len(r), i < j
               PROVE  r[i] < r[j] \/ r[j] \in L
  BY DEF RisesBut, r
<1>5. i \in 1 .. Len(r) - 1
  BY <1>2, <1>4
<1>6. r[i] = w[i + o] /\ i + o \in 1 .. Len(w)
  BY <1>3, <1>5
<1>7. CASE j = Len(r)
  BY <1>2, <1>6, <1>7
<1>8. CASE j # Len(r)
  <2>1. j \in 1 .. Len(r) - 1
    BY <1>2, <1>8
  <2>2. r[j] = w[j + o] /\ j + o \in 1 .. Len(w) /\ i + o < j + o
    BY <1>3, <1>4, <2>1
  <2> QED
    BY <1>6, <2>2 DEF RisesBut
<1> QED
  BY <1>7, <1>8

LEMMA PushKeepsOrder ==
  ASSUME NEW S \in SUBSET Nat, NEW w \in Seq(S), NEW n \in S, NEW c \in Nat \ {0}, Len(w) <= c,
         Rises(w), \A i \in 1 .. Len(w) : w[i] < n
  PROVE  Rises(Pushed(w, n, c))
<1>1. \A s : Rises(s) <=> RisesBut(s, {})
  BY DEF Rises, RisesBut
<1>2. RisesBut(Pushed(w, n, c), {})
  BY <1>1, PushKeepsOrderBut
<1> QED
  BY <1>1, <1>2

\* A finite set of numbers can be put in order.
LEMMA Enumerated ==
  ASSUME NEW n \in Nat, NEW A \in SUBSET (1 .. n)
  PROVE  /\ IsFiniteSet(A) /\ Cardinality(A) \in 0 .. n
         /\ \E s \in [1 .. Cardinality(A) -> A] : \A i, j \in DOMAIN s : i < j => s[i] < s[j]
<1> DEFINE Ordered(B) ==
             \E s \in [1 .. Cardinality(B) -> B] : \A i, j \in DOMAIN s : i < j => s[i] < s[j]
           Possible == {m \in Nat : \A B \in SUBSET (1 .. m) : Ordered(B)}
<1>1. \A m \in Nat : \A B \in SUBSET (1 .. m) : IsFiniteSet(B) /\ Cardinality(B) \in 0 .. m
  <2> SUFFICES ASSUME NEW m \in Nat, NEW B \in SUBSET (1 .. m)
               PROVE  IsFiniteSet(B) /\ Cardinality(B) \in 0 .. m
    OBVIOUS
  <2>1. IsFiniteSet(1 .. m) /\ Cardinality(1 .. m) = m
    BY FS_Interval
  <2>2. IsFiniteSet(B) /\ Cardinality(B) <= m
    BY <2>1, FS_Subset
  <2> QED
    BY <2>2, FS_CardinalityType
<1>2. 0 \in Possible
  <2>1. ASSUME NEW B \in SUBSET (1 .. 0)
        PROVE  Ordered(B)
    <3>0. B = {}
      OBVIOUS
    <3>1. B = {} /\ Cardinality(B) = 0
      BY <3>0, FS_EmptySet
    <3>2. <<>> \in [1 .. 0 -> {}] /\ DOMAIN <<>> = {}
      OBVIOUS
    <3>3. <<>> \in [1 .. Cardinality(B) -> B]
      BY <3>1, <3>2
    <3> QED
      BY <3>2, <3>3
  <2> QED
    BY <2>1
<1>3. ASSUME NEW m \in Nat, m \in Possible
      PROVE  m + 1 \in Possible
  <2> SUFFICES ASSUME NEW B \in SUBSET (1 .. m + 1)
               PROVE  Ordered(B)
    OBVIOUS
  <2>1. CASE m + 1 \notin B
    <3>1. B \in SUBSET (1 .. m)
      BY <2>1
    <3> QED
      BY <1>3, <3>1
  <2>2. CASE m + 1 \in B
    <3> DEFINE Old == B \ {m + 1}
               k == Cardinality(Old)
    <3>1. Old \in SUBSET (1 .. m)
      OBVIOUS
    <3>2. IsFiniteSet(Old) /\ k \in Nat /\ B = Old \cup {m + 1}
      BY <1>1, <2>2, <3>1
    <3>3. Cardinality(B) = k + 1
      BY <3>2, FS_AddElement
    <3>4. PICK s \in [1 .. k -> Old] : \A i, j \in DOMAIN s : i < j => s[i] < s[j]
      BY <1>3, <3>1
    <3>5. \A i \in 1 .. k : s[i] \in Old /\ s[i] \in 1 .. m
      BY <3>1, <3>4
    <3> HIDE DEF Old, k
    <3> DEFINE t == [i \in 1 .. k + 1 |-> IF i = k + 1 THEN m + 1 ELSE s[i]]
    <3>6. \A i \in 1 .. k + 1 : i # k + 1 => i \in 1 .. k
      BY <3>2
    <3>7. t \in [1 .. Cardinality(B) -> B]
      BY <3>2, <3>3, <3>5, <3>6
    <3>8. ASSUME NEW i \in 1 .. k + 1, NEW j \in 1 .. k + 1, i < j
          PROVE  t[i] < t[j]
      <4>1. i \in 1 .. k /\ t[i] = s[i] /\ s[i] \in 1 .. m
        BY <3>2, <3>5, <3>8
      <4>2. CASE j = k + 1
        BY <4>1, <4>2, <3>2
      <4>3. CASE j # k + 1
        <5>1. j \in 1 .. k /\ t[j] = s[j]
          BY <3>6, <4>3
        <5> QED
          BY <3>4, <3>8, <4>1, <5>1
      <4> QED
        BY <4>2, <4>3
    <3>9. DOMAIN t = 1 .. k + 1
      OBVIOUS
    <3> QED
      BY <3>7, <3>8, <3>9
  <2> QED
    BY <2>1, <2>2
<1>4. n \in Possible
  <2> HIDE DEF Possible
  <2> QED
    BY <1>2, <1>3, Induction
<1>5. Ordered(A)
  BY <1>4
<1> QED
  BY <1>1, <1>5

\* What has a number of a finite set in each of as many places, in order, has all of them.
LEMMA EnumerationIs ==
  ASSUME NEW n \in Nat, NEW A \in SUBSET (1 .. n),
         NEW s \in [1 .. Cardinality(A) -> A], \A i, j \in DOMAIN s : i < j => s[i] < s[j]
  PROVE  s \in Seq(A) /\ Len(s) = Cardinality(A) /\ Rises(s) /\ ToSet(s) = A
<1>1. IsFiniteSet(A) /\ Cardinality(A) \in Nat
  BY Enumerated
<1>2. s \in Seq(A) /\ Len(s) = Cardinality(A)
  BY <1>1
<1>3. s \in Injection(1 .. Cardinality(A), A)
  <2>1. ASSUME NEW i \in 1 .. Cardinality(A), NEW j \in 1 .. Cardinality(A), s[i] = s[j]
        PROVE  i = j
    <3>0. s[i] \in A /\ s[j] \in A /\ A \subseteq Nat
      OBVIOUS
    <3>1. s[i] \in Nat /\ s[j] \in Nat
      BY <3>0
    <3>2. i \in DOMAIN s /\ j \in DOMAIN s
      OBVIOUS
    <3>3. ~(i < j) /\ ~(j < i)
      BY <2>1, <3>1, <3>2
    <3> QED
      BY <1>1, <3>3
  <2> QED
    BY <2>1 DEF Injection, IsInjective
<1>4. Cardinality(1 .. Cardinality(A)) = Cardinality(A)
  BY <1>1, FS_Interval
<1>5. s \in Surjection(1 .. Cardinality(A), A)
  BY <1>1, <1>3, <1>4, FS_Injection
<1>6. ToSet(s) = A
  <2>1. ToSet(s) = {s[i] : i \in 1 .. Len(s)} /\ ToSet(s) \subseteq A
    BY <1>2, ToSetIs
  <2>2. \A x \in A : \E i \in 1 .. Cardinality(A) : s[i] = x
    BY <1>5 DEF Surjection
  <2> QED
    BY <1>2, <2>1, <2>2
<1> QED
  BY <1>2, <1>6 DEF Rises

\* The numbers of A, smallest first.
InOrder(A) == CHOOSE s \in [1 .. Cardinality(A) -> A] : \A i, j \in DOMAIN s : i < j => s[i] < s[j]

LEMMA InOrderIs ==
  ASSUME NEW n \in Nat, NEW A \in SUBSET (1 .. n)
  PROVE  /\ InOrder(A) \in Seq(A) /\ Len(InOrder(A)) = Cardinality(A) /\ Cardinality(A) \in 0 .. n
         /\ Rises(InOrder(A)) /\ ToSet(InOrder(A)) = A
<1>1. \E s \in [1 .. Cardinality(A) -> A] : \A i, j \in DOMAIN s : i < j => s[i] < s[j]
  BY Enumerated
<1>2. /\ InOrder(A) \in [1 .. Cardinality(A) -> A]
      /\ \A i, j \in DOMAIN InOrder(A) : i < j => InOrder(A)[i] < InOrder(A)[j]
  BY <1>1 DEF InOrder
<1> HIDE DEF InOrder
<1>3. /\ InOrder(A) \in Seq(A) /\ Len(InOrder(A)) = Cardinality(A)
      /\ Rises(InOrder(A)) /\ ToSet(InOrder(A)) = A
  BY <1>2, EnumerationIs
<1> QED
  BY <1>3, Enumerated

\* A set that has numbers in order has at least as many.
LEMMA RoomForRising ==
  ASSUME NEW A, IsFiniteSet(A), NEW k \in Nat, NEW r \in [1 .. k -> A],
         \A i \in 1 .. k : r[i] \in Nat, \A i, j \in 1 .. k : i < j => r[i] < r[j]
  PROVE  k <= Cardinality(A)
<1>1. \A i, j \in 1 .. k : r[i] = r[j] => i = j
  <2> SUFFICES ASSUME NEW i \in 1 .. k, NEW j \in 1 .. k, r[i] = r[j]
               PROVE  i = j
    OBVIOUS
  <2>1. ~(i < j) /\ ~(j < i)
    OBVIOUS
  <2> QED
    BY <2>1
<1>2. r \in Injection(1 .. k, A)
  BY <1>1 DEF Injection, IsInjective
<1>3. Cardinality(1 .. k) = k
  BY FS_Interval
<1> QED
  BY <1>2, <1>3, FS_Injection

\* The last k elements of s, or all there are.
LastOnes(s, k) == SubSeq(s, Len(s) + 1 - (IF k < Len(s) THEN k ELSE Len(s)), Len(s))

LEMMA LastOnesAre ==
  ASSUME NEW S, NEW s \in Seq(S), NEW k \in Nat
  PROVE  LET d == IF k < Len(s) THEN Len(s) - k ELSE 0 IN
         /\ LastOnes(s, k) \in Seq(S)
         /\ Len(LastOnes(s, k)) = Len(s) - d /\ Len(LastOnes(s, k)) <= k
         /\ \A i \in 1 .. Len(s) - d : LastOnes(s, k)[i] = s[i + d]
<1> DEFINE d == IF k < Len(s) THEN Len(s) - k ELSE 0
<1>1. d \in 0 .. Len(s) /\ Len(s) - d <= k /\ Len(s) \in Nat
  OBVIOUS
<1>2. LastOnes(s, k) = SubSeq(s, d + 1, Len(s))
  <2>1. Len(s) + 1 - (IF k < Len(s) THEN k ELSE Len(s)) = d + 1
    OBVIOUS
  <2> QED
    BY <2>1 DEF LastOnes
<1> HIDE DEF d
<1>3. /\ SubSeq(s, d + 1, Len(s)) \in Seq(S)
      /\ Len(SubSeq(s, d + 1, Len(s))) = Len(s) - d
      /\ \A i \in 1 .. Len(s) - d : SubSeq(s, d + 1, Len(s))[i] = s[i + d]
  BY <1>1
<1> QED
  BY <1>1, <1>2, <1>3 DEF d

\* Of the numbers of A the last k are in order, and those left out have k that are greater.
LEMMA LastOfThoseInOrder ==
  ASSUME NEW n \in Nat, NEW A \in SUBSET (1 .. n), NEW k \in Nat
  PROVE  /\ LastOnes(InOrder(A), k) \in Seq(A) /\ Len(LastOnes(InOrder(A), k)) <= k
         /\ Rises(LastOnes(InOrder(A), k))
         /\ \A x \in A : x \in ToSet(LastOnes(InOrder(A), k)) \/ Cardinality(A \cap x + 1 .. n) >= k
<1> DEFINE s == InOrder(A)
           r == LastOnes(s, k)
           d == IF k < Len(s) THEN Len(s) - k ELSE 0
<1>1. s \in Seq(A) /\ Len(s) \in Nat /\ Rises(s) /\ ToSet(s) = A
  BY InOrderIs
<1> HIDE DEF s
<1>2. /\ r \in Seq(A) /\ Len(r) = Len(s) - d /\ Len(r) <= k
      /\ \A i \in 1 .. Len(s) - d : r[i] = s[i + d]
  BY <1>1, LastOnesAre
<1>3. d \in 0 .. Len(s) /\ (d # 0 => Len(s) - d = k)
  BY <1>1
<1> HIDE DEF r, d
<1>4. \A i \in 1 .. Len(s) - d : i + d \in 1 .. Len(s)
  BY <1>1, <1>3
<1>5. Rises(r)
  <2>1. \A i, j \in 1 .. Len(s) - d : i < j => i + d < j + d
    BY <1>1, <1>3
  <2> QED
    BY <1>1, <1>2, <1>4, <2>1 DEF Rises
<1>6. ASSUME NEW x \in A, x \notin ToSet(r)
      PROVE  Cardinality(A \cap x + 1 .. n) >= k
  <2>1. PICK i \in 1 .. Len(s) : s[i] = x
    BY <1>1, ToSetIs
  <2>2. ToSet(r) = {r[j] : j \in 1 .. Len(r)}
    BY <1>2, ToSetIs
  <2>3. i <= d
    <3>1. ASSUME i > d
          PROVE  FALSE
      <4>1. i - d \in 1 .. Len(s) - d /\ (i - d) + d = i
        BY <1>1, <1>3, <3>1
      <4>2. r[i - d] = x /\ i - d \in 1 .. Len(r)
        BY <1>2, <2>1, <4>1
      <4> QED
        BY <1>6, <2>2, <4>2
    <3> QED
      BY <1>3, <3>1
  <2>4. Len(s) - d = k /\ d \in Nat
    BY <1>3, <2>3
  <2> DEFINE B == A \cap x + 1 .. n
  <2>5. \A j \in 1 .. k : r[j] \in B /\ r[j] \in Nat
    <3> SUFFICES ASSUME NEW j \in 1 .. k
                 PROVE  r[j] \in B /\ r[j] \in Nat
      OBVIOUS
    <3>1. r[j] = s[j + d] /\ j + d \in 1 .. Len(s) /\ i < j + d
      BY <1>2, <1>4, <2>3, <2>4
    <3>2. s[i] < s[j + d]
      BY <1>1, <3>1 DEF Rises
    <3>3. r[j] \in A
      BY <1>2, <2>4
    <3>4. r[j] \in 1 .. n /\ x \in 1 .. n
      BY <3>3
    <3> QED
      BY <2>1, <3>1, <3>2, <3>3, <3>4
  <2>6. IsFiniteSet(B)
    BY Enumerated
  <2> HIDE DEF B
  <2>7. r \in [1 .. k -> B]
    BY <1>2, <2>4, <2>5
  <2>8. \A j, l \in 1 .. k : j < l => r[j] < r[l]
    BY <1>2, <1>5, <2>4 DEF Rises
  <2>9. k <= Cardinality(B)
    BY <2>5, <2>6, <2>7, <2>8, RoomForRising
  <2>10. Cardinality(B) \in Nat
    BY <2>6, FS_CardinalityType
  <2> QED
    BY <2>9, <2>10 DEF B
<1> QED
  BY <1>2, <1>5, <1>6 DEF r, s

\* All elements of s but the last k.
OlderOnes(s, k) == SubSeq(s, 1, Len(s) - (IF k < Len(s) THEN k ELSE Len(s)))

\* The first k elements of s, or all there are.
FirstOnes(s, k) == SubSeq(s, 1, IF k < Len(s) THEN k ELSE Len(s))

LEMMA FirstOnesAre ==
  ASSUME NEW S, NEW s \in Seq(S), NEW k \in Nat
  PROVE  /\ FirstOnes(s, k) \in Seq(S) /\ Len(FirstOnes(s, k)) <= k /\ Len(FirstOnes(s, k)) <= Len(s)
         /\ \A i \in 1 .. Len(FirstOnes(s, k)) : FirstOnes(s, k)[i] = s[i]
         /\ Rises(s) => Rises(FirstOnes(s, k))
<1> DEFINE m == IF k < Len(s) THEN k ELSE Len(s)
<1>1. m \in 0 .. Len(s) /\ m <= k /\ Len(s) \in Nat
  OBVIOUS
<1>2. FirstOnes(s, k) = SubSeq(s, 1, m)
  BY DEF FirstOnes
<1> HIDE DEF m
<1>3. SubSeq(s, 1, m) \in Seq(S) /\ Len(SubSeq(s, 1, m)) = m /\ \A i \in 1 .. m : SubSeq(s, 1, m)[i] = s[i]
  BY <1>1
<1>4. \A i \in 1 .. m : i \in 1 .. Len(s)
  BY <1>1
<1>5. Rises(s) => Rises(SubSeq(s, 1, m))
  BY <1>3, <1>4 DEF Rises
<1> QED
  BY <1>1, <1>2, <1>3, <1>5

LEMMA OlderOnesAre ==
  ASSUME NEW S, NEW s \in Seq(S), NEW k \in Nat
  PROVE  LET d == IF k < Len(s) THEN Len(s) - k ELSE 0 IN
         /\ OlderOnes(s, k) \in Seq(S) /\ Len(OlderOnes(s, k)) = d
         /\ \A i \in 1 .. d : OlderOnes(s, k)[i] = s[i]
<1> DEFINE d == IF k < Len(s) THEN Len(s) - k ELSE 0
<1>1. d \in 0 .. Len(s) /\ Len(s) \in Nat
  OBVIOUS
<1>2. OlderOnes(s, k) = SubSeq(s, 1, d)
  <2>1. Len(s) - (IF k < Len(s) THEN k ELSE Len(s)) = d
    OBVIOUS
  <2> QED
    BY <2>1 DEF OlderOnes
<1> HIDE DEF d
<1>3. SubSeq(s, 1, d) \in Seq(S) /\ Len(SubSeq(s, 1, d)) = d /\ \A i \in 1 .. d : SubSeq(s, 1, d)[i] = s[i]
  BY <1>1
<1> QED
  BY <1>2, <1>3 DEF d

\* Each element of s is among the last k, or before them.
LEMMA LastOrOlder ==
  ASSUME NEW S, NEW s \in Seq(S), NEW k \in Nat
  PROVE  /\ ToSet(LastOnes(s, k)) \subseteq ToSet(s) /\ ToSet(OlderOnes(s, k)) \subseteq ToSet(s)
         /\ ToSet(s) \subseteq ToSet(LastOnes(s, k)) \cup ToSet(OlderOnes(s, k))
<1> DEFINE d == IF k < Len(s) THEN Len(s) - k ELSE 0
           r == LastOnes(s, k)
           o == OlderOnes(s, k)
<1>1. d \in 0 .. Len(s) /\ Len(s) \in Nat
  OBVIOUS
<1>2. r \in Seq(S) /\ Len(r) = Len(s) - d /\ \A i \in 1 .. Len(s) - d : r[i] = s[i + d]
  BY LastOnesAre
<1>3. o \in Seq(S) /\ Len(o) = d /\ \A i \in 1 .. d : o[i] = s[i]
  BY OlderOnesAre
<1> HIDE DEF d, r, o
<1>4. /\ ToSet(s) = {s[i] : i \in 1 .. Len(s)} /\ ToSet(r) = {r[i] : i \in 1 .. Len(r)}
      /\ ToSet(o) = {o[i] : i \in 1 .. Len(o)}
  BY <1>2, <1>3, ToSetIs
<1>5. /\ \A i \in 1 .. Len(s) - d : i + d \in 1 .. Len(s)
      /\ \A i \in 1 .. d : i \in 1 .. Len(s)
      /\ \A i \in 1 .. Len(s) : i \in 1 .. d \/ (i - d \in 1 .. Len(s) - d /\ (i - d) + d = i)
  BY <1>1
<1>6. \A i \in 1 .. Len(r) : r[i] \in ToSet(s)
  BY <1>2, <1>4, <1>5
<1>7. \A i \in 1 .. Len(o) : o[i] \in ToSet(s)
  BY <1>3, <1>4, <1>5
<1>8. \A i \in 1 .. Len(s) : s[i] \in ToSet(r) \cup ToSet(o)
  <2> SUFFICES ASSUME NEW i \in 1 .. Len(s) PROVE s[i] \in ToSet(r) \cup ToSet(o)
    OBVIOUS
  <2>1. CASE i \in 1 .. d
    BY <1>3, <1>4, <2>1
  <2>2. CASE i - d \in 1 .. Len(s) - d /\ (i - d) + d = i
    <3>1. r[i - d] = s[i]
      BY <1>2, <2>2
    <3> QED
      BY <1>2, <1>4, <2>2, <3>1
  <2> QED
    BY <1>5, <2>1, <2>2
<1> QED
  BY <1>4, <1>6, <1>7, <1>8 DEF r, o

\* What a window of at most c elements has when ns are pushed to it, and that
\* it stays in order when they come after all it has, or are in L.
LEMMA PushedAllAre ==
  ASSUME NEW S, NEW w \in Seq(S), NEW ns \in Seq(S), NEW c \in Nat
  PROVE  /\ LastOnes(w \o ns, c) \in Seq(S) /\ Len(LastOnes(w \o ns, c)) <= c
         /\ \A i \in 1 .. Len(LastOnes(w \o ns, c)) :
              \/ \E j \in 1 .. Len(w) : LastOnes(w \o ns, c)[i] = w[j]
              \/ \E j \in 1 .. Len(ns) : LastOnes(w \o ns, c)[i] = ns[j]
         /\ ToSet(ns) \subseteq ToSet(LastOnes(w \o ns, c)) \cup ToSet(OlderOnes(ns, c))
<1> DEFINE s == w \o ns
           d == IF c < Len(s) THEN Len(s) - c ELSE 0
           e == IF c < Len(ns) THEN Len(ns) - c ELSE 0
           r == LastOnes(s, c)
           o == OlderOnes(ns, c)
<1>1. /\ s \in Seq(S) /\ Len(s) = Len(w) + Len(ns) /\ Len(w) \in Nat /\ Len(ns) \in Nat
      /\ \A i \in 1 .. Len(w) : s[i] = w[i]
      /\ \A i \in Len(w) + 1 .. Len(w) + Len(ns) : s[i] = ns[i - Len(w)]
  OBVIOUS
<1> HIDE DEF s
<1>2. /\ r \in Seq(S) /\ Len(r) = Len(s) - d /\ Len(r) <= c
      /\ \A i \in 1 .. Len(s) - d : r[i] = s[i + d]
  BY <1>1, LastOnesAre
<1>3. o \in Seq(S) /\ Len(o) = e /\ \A i \in 1 .. e : o[i] = ns[i]
  BY OlderOnesAre
<1>4. d \in 0 .. Len(s) /\ e \in 0 .. Len(ns) /\ d <= Len(w) + e
  BY <1>1
<1> HIDE DEF d, e, r, o
<1>5. ASSUME NEW i \in 1 .. Len(r)
      PROVE  (\E j \in 1 .. Len(w) : r[i] = w[j]) \/ (\E j \in 1 .. Len(ns) : r[i] = ns[j])
  <2>1. r[i] = s[i + d] /\ i + d \in 1 .. Len(w) + Len(ns)
    BY <1>1, <1>2, <1>4, <1>5
  <2>2. CASE i + d <= Len(w)
    <3>1. i + d \in 1 .. Len(w)
      BY <1>1, <2>1, <2>2
    <3> QED
      BY <1>1, <2>1, <3>1
  <2>3. CASE i + d > Len(w)
    <3>1. i + d \in Len(w) + 1 .. Len(w) + Len(ns) /\ (i + d) - Len(w) \in 1 .. Len(ns)
      BY <1>1, <2>1, <2>3
    <3> QED
      BY <1>1, <2>1, <3>1
  <2>4. i + d \in Int
    BY <2>1
  <2> QED
    BY <1>1, <2>2, <2>3, <2>4
<1>6. ASSUME NEW i \in 1 .. Len(ns)
      PROVE  (\E j \in 1 .. Len(r) : ns[i] = r[j]) \/ (\E j \in 1 .. Len(o) : ns[i] = o[j])
  <2>1. CASE i <= e
    <3>1. i \in 1 .. e
      BY <1>4, <2>1
    <3> QED
      BY <1>3, <3>1
  <2>2. CASE i > e
    <3> DEFINE j == Len(w) + i - d
    <3>1. j \in 1 .. Len(s) - d /\ j + d = Len(w) + i /\ Len(w) + i \in Len(w) + 1 .. Len(w) + Len(ns)
          /\ (Len(w) + i) - Len(w) = i
      BY <1>1, <1>4, <2>2
    <3> HIDE DEF j
    <3>2. r[j] = ns[i] /\ j \in 1 .. Len(r)
      BY <1>1, <1>2, <3>1
    <3> QED
      BY <3>2
  <2> QED
    BY <1>4, <2>1, <2>2
<1>7. /\ ToSet(ns) = {ns[i] : i \in 1 .. Len(ns)} /\ ToSet(r) = {r[i] : i \in 1 .. Len(r)}
      /\ ToSet(o) = {o[i] : i \in 1 .. Len(o)}
  BY <1>2, <1>3, ToSetIs
<1>8. ToSet(ns) \subseteq ToSet(r) \cup ToSet(o)
  BY <1>6, <1>7
<1> QED
  BY <1>2, <1>5, <1>8 DEF r, o, s

LEMMA PushAllKeepsOrderBut ==
  ASSUME NEW w \in Seq(Nat), NEW ns \in Seq(Nat), NEW c \in Nat, NEW L,
         RisesBut(w, L), Rises(ns),
         \A j \in 1 .. Len(ns) : ns[j] \in L \/ \A i \in 1 .. Len(w) : w[i] < ns[j]
  PROVE  RisesBut(LastOnes(w \o ns, c), L)
<1> DEFINE s == w \o ns
           d == IF c < Len(s) THEN Len(s) - c ELSE 0
           r == LastOnes(s, c)
<1>1. /\ s \in Seq(Nat) /\ Len(s) = Len(w) + Len(ns) /\ Len(w) \in Nat /\ Len(ns) \in Nat
      /\ \A i \in 1 .. Len(w) : s[i] = w[i]
      /\ \A i \in Len(w) + 1 .. Len(w) + Len(ns) : s[i] = ns[i - Len(w)]
  OBVIOUS
<1> HIDE DEF s
<1>2. r \in Seq(Nat) /\ Len(r) = Len(s) - d /\ \A i \in 1 .. Len(s) - d : r[i] = s[i + d]
  BY <1>1, LastOnesAre
<1>3. d \in 0 .. Len(s)
  BY <1>1
<1> HIDE DEF d, r
<1>4. ASSUME NEW i \in 1 .. Len(s), NEW j \in 1 .. Len(s), i < j
      PROVE  s[i] < s[j] \/ s[j] \in L
  <2>1. CASE j <= Len(w)
    <3>1. i \in 1 .. Len(w) /\ j \in 1 .. Len(w)
      BY <1>1, <1>4, <2>1
    <3> QED
      BY <1>1, <1>4, <3>1 DEF RisesBut
  <2>2. CASE j > Len(w)
    <3>1. j \in Len(w) + 1 .. Len(w) + Len(ns) /\ j - Len(w) \in 1 .. Len(ns) /\ s[j] = ns[j - Len(w)]
      BY <1>1, <2>2
    <3>2. CASE i <= Len(w)
      <4>1. i \in 1 .. Len(w) /\ s[i] = w[i]
        BY <1>1, <3>2
      <4> QED
        BY <3>1, <4>1
    <3>3. CASE i > Len(w)
      <4>1. i \in Len(w) + 1 .. Len(w) + Len(ns) /\ i - Len(w) \in 1 .. Len(ns) /\ s[i] = ns[i - Len(w)]
        BY <1>1, <3>3
      <4>2. i - Len(w) < j - Len(w)
        BY <1>1, <1>4
      <4> QED
        BY <3>1, <4>1, <4>2 DEF Rises
    <3> QED
      BY <1>1, <3>2, <3>3
  <2> QED
    BY <1>1, <2>1, <2>2
<1>5. \A i, j \in 1 .. Len(s) - d : i < j => i + d < j + d /\ i + d \in 1 .. Len(s) /\ j + d \in 1 .. Len(s)
  BY <1>1, <1>3
<1>6. \A i, j \in 1 .. Len(r) : i < j => r[i] < r[j] \/ r[j] \in L
  <2> SUFFICES ASSUME NEW i \in 1 .. Len(r), NEW j \in 1 .. Len(r), i < j
               PROVE  r[i] < r[j] \/ r[j] \in L
    OBVIOUS
  <2>1. i \in 1 .. Len(s) - d /\ j \in 1 .. Len(s) - d
    BY <1>2
  <2>2. r[i] = s[i + d] /\ r[j] = s[j + d] /\ i + d < j + d /\ i + d \in 1 .. Len(s) /\ j + d \in 1 .. Len(s)
    BY <1>2, <1>5, <2>1
  <2> QED
    BY <1>4, <2>2
<1> QED
  BY <1>6 DEF RisesBut, r, s

\* Pushing ns and then n is pushing one more: what is pushed one by one leaves
\* the last c of all.
LEMMA PushedOneByOne ==
  ASSUME NEW S, NEW w \in Seq(S), NEW ns \in Seq(S), NEW n \in S, NEW c \in Nat \ {0}
  PROVE  LastOnes(w \o Append(ns, n), c) = Pushed(LastOnes(w \o ns, c), n, c)
<1> DEFINE s == w \o ns
           t == w \o Append(ns, n)
           d == IF c < Len(s) THEN Len(s) - c ELSE 0
           e == IF c < Len(t) THEN Len(t) - c ELSE 0
           r == LastOnes(s, c)
           q == LastOnes(t, c)
           p == Pushed(r, n, c)
<1>1. s \in Seq(S) /\ t = Append(s, n)
  OBVIOUS
<1> HIDE DEF s, t
<1>2. /\ t \in Seq(S) /\ Len(t) = Len(s) + 1 /\ Len(s) \in Nat /\ t[Len(s) + 1] = n
      /\ \A i \in 1 .. Len(s) : t[i] = s[i]
  BY <1>1
<1>3. r \in Seq(S) /\ Len(r) = Len(s) - d /\ Len(r) <= c /\ \A i \in 1 .. Len(s) - d : r[i] = s[i + d]
  BY <1>1, LastOnesAre
<1>4. q \in Seq(S) /\ Len(q) = Len(t) - e /\ \A i \in 1 .. Len(t) - e : q[i] = t[i + e]
  BY <1>2, LastOnesAre
<1>5. /\ d \in 0 .. Len(s) /\ e \in 0 .. Len(s)
      /\ (Len(s) >= c => Len(s) - d = c /\ e = d + 1) /\ (Len(s) < c => d = 0 /\ e = 0)
  BY <1>2
<1> HIDE DEF d, e, r, q
<1>6. CASE Len(s) >= c
  <2>1. Len(r) = c /\ r # <<>> /\ p = Append(Tail(r), n)
    BY <1>3, <1>5, <1>6 DEF Pushed
  <2>2. Tail(r) \in Seq(S) /\ Len(Tail(r)) = c - 1 /\ \A i \in 1 .. c - 1 : Tail(r)[i] = r[i + 1]
    BY <1>3, <2>1, HeadTailProperties
  <2>3. /\ p \in Seq(S) /\ Len(p) = c /\ p[c] = n
        /\ \A i \in 1 .. c - 1 : p[i] = r[i + 1]
    BY <2>1, <2>2, AppendProperties
  <2>0. Len(s) \in Nat /\ d \in 0 .. Len(s) /\ e = d + 1 /\ Len(s) - d = c /\ Len(t) = Len(s) + 1
    BY <1>2, <1>5, <1>6
  <2>4. Len(q) = c
    <3>1. Len(t) - e = c
      BY <2>0
    <3> QED
      BY <1>4, <3>1
  <2>5. ASSUME NEW i \in 1 .. c PROVE q[i] = p[i]
    <3>1. q[i] = t[i + e]
      BY <1>4, <2>4
    <3>2. CASE i = c
      <4>1. i + e = Len(s) + 1
        BY <2>0, <3>2
      <4> QED
        BY <1>2, <2>3, <3>1, <3>2, <4>1
    <3>3. CASE i # c
      <4>1. /\ i \in 1 .. c - 1 /\ i + e \in 1 .. Len(s) /\ i + 1 \in 1 .. Len(s) - d /\ (i + 1) + d = i + e
        BY <2>0, <3>3
      <4> QED
        BY <1>2, <1>3, <2>3, <3>1, <4>1
    <3> QED
      BY <3>2, <3>3
  <2> HIDE DEF p
  <2>6. q = p
    BY <1>4, <2>3, <2>4, <2>5
  <2> QED
    BY <2>6 DEF q, p, r, s, t
<1>7. CASE Len(s) < c
  <2>1. Len(r) < c /\ p = Append(r, n) /\ Len(r) = Len(s) /\ Len(q) = Len(s) + 1
    BY <1>2, <1>3, <1>4, <1>5, <1>7 DEF Pushed
  <2>2. /\ p \in Seq(S) /\ Len(p) = Len(s) + 1 /\ p[Len(s) + 1] = n
        /\ \A i \in 1 .. Len(s) : p[i] = r[i]
    BY <1>3, <2>1, AppendProperties
  <2>3. ASSUME NEW i \in 1 .. Len(s) + 1 PROVE q[i] = p[i]
    <3>1. q[i] = t[i]
      <4>1. i + e = i /\ i \in 1 .. Len(t) - e
        BY <1>2, <1>5, <1>7
      <4> QED
        BY <1>4, <4>1
    <3>2. CASE i = Len(s) + 1
      BY <1>2, <2>2, <3>1, <3>2
    <3>3. CASE i # Len(s) + 1
      <4>1. i \in 1 .. Len(s) /\ i + d = i /\ i \in 1 .. Len(s) - d
        BY <1>2, <1>5, <1>7, <3>3
      <4>2. t[i] = s[i] /\ r[i] = s[i] /\ p[i] = r[i]
        BY <1>2, <1>3, <2>2, <4>1
      <4> QED
        BY <3>1, <4>2
    <3> QED
      BY <3>2, <3>3
  <2> HIDE DEF p
  <2>4. q = p
    BY <1>4, <2>1, <2>2, <2>3
  <2> QED
    BY <2>4 DEF q, p, r, s, t
<1> QED
  BY <1>2, <1>6, <1>7

-----------------------------------------------------------------------------
(* Sums: what SumFunction adds up in some order is the same in any order. *)

AnyOf(s) == CHOOSE x \in s : TRUE

\* The sum of f over S, as the fold computes it.
Total(f, S) == SumFunctionOnSet(f, S)

\* g has the sums of f over the members of D.
AddsUp(f, D, g) == g = [s \in D |-> IF s = {} THEN 0 ELSE f[AnyOf(s)] + g[s \ {AnyOf(s)}]]

Upto(S, n) == {s \in SUBSET S : Cardinality(s) <= n}

LEMMA OneLess ==
  ASSUME NEW S, IsFiniteSet(S), NEW x \in S
  PROVE  /\ IsFiniteSet(S \ {x})
         /\ Cardinality(S) \in Nat \ {0}
         /\ Cardinality(S \ {x}) = Cardinality(S) - 1
<1>1. Cardinality(S) \in Nat /\ Cardinality(S) # 0
  BY FS_CardinalityType, FS_EmptySet
<1> QED
  BY <1>1, FS_RemoveElement

LEMMA AnyOfIs == \A S : S # {} => AnyOf(S) \in S
  BY DEF AnyOf

\* What AddsUp says of each set.
LEMMA AddsUpEach ==
  ASSUME NEW f, NEW D, NEW g, AddsUp(f, D, g)
  PROVE  /\ DOMAIN g = D
         /\ \A s \in D : g[s] = IF s = {} THEN 0 ELSE f[AnyOf(s)] + g[s \ {AnyOf(s)}]
<1> DEFINE body(s) == IF s = {} THEN 0 ELSE f[AnyOf(s)] + g[s \ {AnyOf(s)}]
<1>1. g = [s \in D |-> body(s)]
  BY DEF AddsUp
<1> HIDE DEF body
<1>2. DOMAIN g = D /\ \A s \in D : g[s] = body(s)
  BY <1>1
<1> QED
  BY <1>2 DEF body

\* There are such sums of a finite set: of its small subsets first.
LEMMA SumsExist ==
  ASSUME NEW f, NEW S, IsFiniteSet(S)
  PROVE  \E g : AddsUp(f, SUBSET S, g)
<1> DEFINE T == {n \in Nat : \E g : AddsUp(f, Upto(S, n), g)}
<1>1. 0 \in T
  <2> DEFINE g == [s \in Upto(S, 0) |-> 0]
  <2>1. \A s \in Upto(S, 0) : s = {}
    <3> SUFFICES ASSUME NEW s \in SUBSET S, Cardinality(s) <= 0 PROVE s = {}
      BY DEF Upto
    <3>1. IsFiniteSet(s) /\ Cardinality(s) \in Nat
      BY FS_Subset, FS_CardinalityType
    <3> QED
      BY <3>1, FS_EmptySet
  <2>2. AddsUp(f, Upto(S, 0), g)
    BY <2>1 DEF AddsUp
  <2> QED
    BY <2>2
<1>2. ASSUME NEW n \in Nat, n \in T PROVE n + 1 \in T
  <2>1. PICK g : AddsUp(f, Upto(S, n), g)
    BY <1>2
  <2> DEFINE body(s) == IF s = {} THEN 0 ELSE f[AnyOf(s)] + g[s \ {AnyOf(s)}]
             h == [s \in Upto(S, n + 1) |-> body(s)]
             again(s) == IF s = {} THEN 0 ELSE f[AnyOf(s)] + h[s \ {AnyOf(s)}]
  <2>2. ASSUME NEW s \in Upto(S, n + 1), s # {} PROVE s \ {AnyOf(s)} \in Upto(S, n)
    <3>1. IsFiniteSet(s) /\ AnyOf(s) \in s /\ s \subseteq S /\ Cardinality(s) <= n + 1
      BY <2>2, FS_Subset, AnyOfIs DEF Upto
    <3>2. Cardinality(s \ {AnyOf(s)}) = Cardinality(s) - 1 /\ Cardinality(s) \in Nat
      BY <3>1, OneLess
    <3> QED
      BY <3>1, <3>2 DEF Upto
  <2>3. ASSUME NEW s \in Upto(S, n) PROVE s \in Upto(S, n + 1)
    <3>1. s \in SUBSET S /\ Cardinality(s) <= n /\ IsFiniteSet(s)
      BY FS_Subset DEF Upto
    <3>2. Cardinality(s) \in Nat
      BY <3>1, FS_CardinalityType
    <3> QED
      BY <3>1, <3>2 DEF Upto
  <2>4. \A s \in Upto(S, n) : g[s] = body(s)
    <3>1. g = [s \in Upto(S, n) |-> body(s)]
      BY <2>1 DEF AddsUp
    <3> HIDE DEF body
    <3> QED
      BY <3>1
  <2>5. \A s \in Upto(S, n + 1) : h[s] = body(s)
    OBVIOUS
  <2> HIDE DEF h
  <2>6. \A s \in Upto(S, n) : h[s] = g[s]
    BY <2>3, <2>4, <2>5
  <2>7. \A s \in Upto(S, n + 1) : body(s) = again(s)
    BY <2>2, <2>6
  <2>8. h = [s \in Upto(S, n + 1) |-> again(s)]
    <3> HIDE DEF again
    <3>1. h = [s \in Upto(S, n + 1) |-> body(s)]
      BY DEF h
    <3> HIDE DEF body
    <3> QED
      BY <2>7, <3>1
  <2>9. AddsUp(f, Upto(S, n + 1), h)
    BY <2>8 DEF AddsUp
  <2> QED
    BY <2>9
<1> HIDE DEF T
<1>3. Cardinality(S) \in Nat
  BY FS_CardinalityType
<1>4. Cardinality(S) \in T
  BY <1>1, <1>2, <1>3, Induction
<1>5. Upto(S, Cardinality(S)) = SUBSET S
  BY FS_Subset DEF Upto
<1> QED
  BY <1>4, <1>5 DEF T

\* There is one sum of each set.
LEMMA SumsAgree ==
  ASSUME NEW f, NEW S, IsFiniteSet(S), NEW A \in SUBSET S, NEW g, NEW h,
         AddsUp(f, SUBSET S, g), AddsUp(f, SUBSET A, h)
  PROVE  g[A] = h[A]
<1> DEFINE T == {n \in Nat : \A s \in SUBSET A : Cardinality(s) = n => g[s] = h[s]}
<1>0. \A s \in SUBSET A : IsFiniteSet(s) /\ Cardinality(s) \in Nat /\ s \in SUBSET S
  BY FS_Subset, FS_CardinalityType
<1>1. /\ \A s \in SUBSET S : g[s] = IF s = {} THEN 0 ELSE f[AnyOf(s)] + g[s \ {AnyOf(s)}]
      /\ \A s \in SUBSET A : h[s] = IF s = {} THEN 0 ELSE f[AnyOf(s)] + h[s \ {AnyOf(s)}]
  BY AddsUpEach
<1>2. 0 \in T
  BY <1>0, <1>1, FS_EmptySet
<1>3. ASSUME NEW n \in Nat, n \in T PROVE n + 1 \in T
  <2> SUFFICES ASSUME NEW s \in SUBSET A, Cardinality(s) = n + 1 PROVE g[s] = h[s]
    OBVIOUS
  <2>1. s # {}
    <3>1. Cardinality({}) = 0 /\ n + 1 # 0
      BY FS_EmptySet
    <3> QED
      BY <3>1
  <2>2. AnyOf(s) \in s /\ Cardinality(s \ {AnyOf(s)}) = n /\ s \ {AnyOf(s)} \in SUBSET A
    BY <1>0, <2>1, AnyOfIs, OneLess
  <2>3. g[s \ {AnyOf(s)}] = h[s \ {AnyOf(s)}]
    BY <1>3, <2>2
  <2> QED
    BY <1>0, <1>1, <2>1, <2>3
<1> HIDE DEF T
<1>4. Cardinality(A) \in T
  BY <1>0, <1>2, <1>3, Induction
<1> QED
  BY <1>4 DEF T

LEMMA TotalIs ==
  ASSUME NEW f, NEW S, IsFiniteSet(S)
  PROVE  \E g : AddsUp(f, SUBSET S, g) /\ Total(f, S) = g[S]
<1> DEFINE g == CHOOSE g : AddsUp(f, SUBSET S, g)
<1>1. AddsUp(f, SUBSET S, g)
  BY SumsExist
<1>2. Total(f, S) = g[S]
  BY DEF Total, SumFunctionOnSet, FoldFunctionOnSet, MapThenFoldSet, AddsUp, AnyOf
<1> QED
  BY <1>1, <1>2

LEMMA TotalOfNone == \A f : Total(f, {}) = 0
<1> SUFFICES ASSUME NEW f PROVE Total(f, {}) = 0
  OBVIOUS
<1>1. PICK g : AddsUp(f, SUBSET {}, g) /\ Total(f, {}) = g[{}]
  BY TotalIs, FS_EmptySet
<1> QED
  BY <1>1, AddsUpEach

LEMMA TotalUnfolds ==
  ASSUME NEW f, NEW S, IsFiniteSet(S), S # {}
  PROVE  Total(f, S) = f[AnyOf(S)] + Total(f, S \ {AnyOf(S)})
<1>1. PICK g : AddsUp(f, SUBSET S, g) /\ Total(f, S) = g[S]
  BY TotalIs
<1> DEFINE A == S \ {AnyOf(S)}
<1>2. AnyOf(S) \in S /\ IsFiniteSet(A) /\ A \in SUBSET S
  BY AnyOfIs, FS_Subset
<1>3. PICK h : AddsUp(f, SUBSET A, h) /\ Total(f, A) = h[A]
  BY <1>2, TotalIs
<1>4. g[A] = h[A]
  BY <1>1, <1>2, <1>3, SumsAgree
<1>5. g[S] = f[AnyOf(S)] + g[A]
  BY <1>1, AddsUpEach
<1> QED
  BY <1>1, <1>3, <1>4, <1>5

\* A sum is its first part and the sum of the others.
LEMMA TotalWithout ==
  ASSUME NEW f, NEW S, IsFiniteSet(S), \A x \in S : f[x] \in Nat
  PROVE  /\ Total(f, S) \in Nat
         /\ \A x \in S : Total(f, S) = f[x] + Total(f, S \ {x}) /\ Total(f, S \ {x}) \in Nat
<1> DEFINE T == {n \in Nat : \A s \in SUBSET S : Cardinality(s) = n =>
                   /\ Total(f, s) \in Nat
                   /\ \A x \in s : Total(f, s) = f[x] + Total(f, s \ {x}) /\ Total(f, s \ {x}) \in Nat}
<1>0. \A s \in SUBSET S : IsFiniteSet(s) /\ Cardinality(s) \in Nat
  BY FS_Subset, FS_CardinalityType
<1>1. 0 \in T
  BY <1>0, TotalOfNone, FS_EmptySet
<1>2. ASSUME NEW n \in Nat, n \in T PROVE n + 1 \in T
  <2> SUFFICES ASSUME NEW s \in SUBSET S, Cardinality(s) = n + 1
               PROVE  /\ Total(f, s) \in Nat
                      /\ \A x \in s : Total(f, s) = f[x] + Total(f, s \ {x}) /\ Total(f, s \ {x}) \in Nat
    OBVIOUS
  <2> DEFINE y == AnyOf(s)
  <2>1. s # {} /\ y \in s
    BY FS_EmptySet, AnyOfIs
  <2> HIDE DEF y
  <2>2. \A x \in s : s \ {x} \in SUBSET S /\ Cardinality(s \ {x}) = n
    BY <1>0, OneLess
  <2>3. \A x \in s : /\ Total(f, s \ {x}) \in Nat
                     /\ \A z \in s \ {x} : /\ Total(f, s \ {x}) = f[z] + Total(f, (s \ {x}) \ {z})
                                           /\ Total(f, (s \ {x}) \ {z}) \in Nat
    BY <1>2, <2>2
  <2>4. Total(f, s) = f[y] + Total(f, s \ {y})
    BY <1>0, <2>1, TotalUnfolds DEF y
  <2>5. ASSUME NEW x \in s PROVE Total(f, s) = f[x] + Total(f, s \ {x})
    <3>1. CASE x = y
      BY <2>4, <3>1
    <3>2. CASE x # y
      <4>1. Total(f, s \ {y}) = f[x] + Total(f, (s \ {y}) \ {x}) /\ Total(f, (s \ {y}) \ {x}) \in Nat
        BY <2>1, <2>3, <3>2
      <4>2. Total(f, s \ {x}) = f[y] + Total(f, (s \ {x}) \ {y})
        BY <2>1, <2>3, <3>2
      <4>3. (s \ {x}) \ {y} = (s \ {y}) \ {x}
        OBVIOUS
      <4>4. Total(f, s \ {x}) = f[y] + Total(f, (s \ {y}) \ {x})
        BY <4>2, <4>3
      <4>5. f[x] \in Nat /\ f[y] \in Nat
        BY <2>1
      <4>6. \A a, b, c \in Nat : b + (a + c) = a + (b + c)
        OBVIOUS
      <4>7. f[y] + (f[x] + Total(f, (s \ {y}) \ {x})) = f[x] + (f[y] + Total(f, (s \ {y}) \ {x}))
        BY <4>1, <4>5, <4>6
      <4> QED
        BY <2>4, <4>1, <4>4, <4>7
    <3> QED
      BY <3>1, <3>2
  <2>6. Total(f, s) \in Nat
    BY <2>1, <2>3, <2>4
  <2> QED
    BY <2>3, <2>5, <2>6
<1> HIDE DEF T
<1>3. Cardinality(S) \in T
  BY <1>0, <1>1, <1>2, Induction
<1> QED
  BY <1>3 DEF T

\* The same parts have the same sum.
LEMMA TotalSame ==
  ASSUME NEW f, NEW h, NEW S, IsFiniteSet(S), \A x \in S : f[x] = h[x]
  PROVE  Total(f, S) = Total(h, S)
<1> DEFINE T == {n \in Nat : \A s \in SUBSET S : Cardinality(s) = n => Total(f, s) = Total(h, s)}
<1>0. \A s \in SUBSET S : IsFiniteSet(s) /\ Cardinality(s) \in Nat
  BY FS_Subset, FS_CardinalityType
<1>1. 0 \in T
  BY <1>0, TotalOfNone, FS_EmptySet
<1>2. ASSUME NEW n \in Nat, n \in T PROVE n + 1 \in T
  <2> SUFFICES ASSUME NEW s \in SUBSET S, Cardinality(s) = n + 1 PROVE Total(f, s) = Total(h, s)
    OBVIOUS
  <2> DEFINE y == AnyOf(s)
  <2>1. s # {} /\ y \in s
    BY FS_EmptySet, AnyOfIs
  <2>2. s \ {y} \in SUBSET S /\ Cardinality(s \ {y}) = n
    BY <1>0, <2>1, OneLess
  <2>3. Total(f, s \ {y}) = Total(h, s \ {y}) /\ f[y] = h[y]
    BY <1>2, <2>1, <2>2
  <2>4. Total(f, s) = f[y] + Total(f, s \ {y}) /\ Total(h, s) = h[y] + Total(h, s \ {y})
    BY <1>0, <2>1, TotalUnfolds
  <2> QED
    BY <2>3, <2>4
<1> HIDE DEF T
<1>3. Cardinality(S) \in T
  BY <1>0, <1>1, <1>2, Induction
<1> QED
  BY <1>3 DEF T

\* As many ones as there are.
LEMMA TotalOfOnes ==
  ASSUME NEW f, NEW S, IsFiniteSet(S), \A x \in S : f[x] = 1
  PROVE  Total(f, S) = Cardinality(S)
<1> DEFINE T == {n \in Nat : \A s \in SUBSET S : Cardinality(s) = n => Total(f, s) = n}
<1>0. \A s \in SUBSET S : IsFiniteSet(s) /\ Cardinality(s) \in Nat
  BY FS_Subset, FS_CardinalityType
<1>1. 0 \in T
  BY <1>0, TotalOfNone, FS_EmptySet
<1>2. ASSUME NEW n \in Nat, n \in T PROVE n + 1 \in T
  <2> SUFFICES ASSUME NEW s \in SUBSET S, Cardinality(s) = n + 1 PROVE Total(f, s) = n + 1
    OBVIOUS
  <2> DEFINE y == AnyOf(s)
  <2>1. s # {} /\ y \in s
    BY FS_EmptySet, AnyOfIs
  <2>2. s \ {y} \in SUBSET S /\ Cardinality(s \ {y}) = n
    BY <1>0, <2>1, OneLess
  <2>3. Total(f, s \ {y}) = n /\ f[y] = 1
    BY <1>2, <2>1, <2>2
  <2>4. Total(f, s) = f[y] + Total(f, s \ {y})
    BY <1>0, <2>1, TotalUnfolds
  <2> QED
    BY <2>3, <2>4
<1> HIDE DEF T
<1>3. Cardinality(S) \in T
  BY <1>0, <1>1, <1>2, Induction
<1> QED
  BY <1>0, <1>3 DEF T

=============================================================================
