----------------------------- MODULE PollsProofs ------------------------------
(***************************************************************************)
(* What Polls promises, proved for every window, limit of an answer,       *)
(* number of posts, intents and restarts.                                  *)
(*                                                                         *)
(* Of the connectors that wait for an answer, what they are past has been  *)
(* shown or is in the set of what they lose, and the window has nothing    *)
(* newer than what they are past.  Of those that look themselves, what     *)
(* they remember of the last look is never ahead of what they showed then. *)
(***************************************************************************)
EXTENDS Polls, SequenceLemmas

Kinds == {"message", "other"}

\* The messages among what was posted.
Plain(p) == {n \in DOMAIN p : p[n] = "message"}

\* What every room has.
RoomInv ==
  /\ task \in TaskStates
  /\ queued \in Nat
  /\ posted \in Seq(Kinds) /\ Len(posted) <= MaxPosted
  /\ window \in Seq(Nat) /\ Len(window) <= Cap
  /\ shown \in SUBSET Nat

\* What every connector has that waits for the answer.
WaitInv ==
  /\ RoomInv
  /\ position \in 0 .. Len(posted)
  /\ forgotten \in 0 .. Len(posted)
  /\ restarts \in Nat
  /\ polling \in BOOLEAN
  /\ polling => task = "receiving"

\* The window has nothing newer than n.
UpTo(w, n) == \A i \in 1 .. Len(w) : w[i] <= n

-----------------------------------------------------------------------------
(* Telegram *)

TelegramInv ==
  /\ WaitInv
  /\ offsetAt \in Nat /\ skipped \in SUBSET Nat /\ crowded \in SUBSET Nat
  /\ recent \in Seq(Nat)
  /\ recent = T!NotFetched \/ task \in {"connecting", "ended"}
  /\ recent # T!NotFetched => Len(recent) <= Cap /\ Rises(recent) /\ UpTo(recent, T!LastPending)
  /\ Plain(posted) \cap 1 .. forgotten \subseteq shown \cup skipped \cup crowded
  /\ Live => Plain(posted) \cap 1 .. position \subseteq shown \cup skipped \cup crowded
  /\ task = "connecting" => window = <<>>
  /\ offsetAt > 0 => Rises(window) /\ UpTo(window, position)

-----------------------------------------------------------------------------
(* Zulip *)

\* The messages up to r that a history fetched after f posts lacks.
Hidden(p, r, f) == {n \in 1 .. r : Cardinality(Plain(p) \cap n + 1 .. f) >= HistoryLimit}

ZulipInv ==
  /\ WaitInv
  /\ registered \in 0 .. Len(posted) \cup {None}
  /\ fetchedAt \in 0 .. Len(posted)
  /\ overwritten \in SUBSET Nat
  /\ task = "connecting" => window = <<>> /\ (registered # None => forgotten <= registered)
  /\ Live => /\ registered <= position /\ registered <= fetchedAt /\ forgotten <= position
             /\ Plain(posted) \cap 1 .. position \subseteq Hidden(posted, registered, fetchedAt) \cup shown \cup overwritten
  /\ RisesBut(window, registered + 1 .. fetchedAt)
  /\ \A i \in 1 .. Len(window) : window[i] <= position \/ window[i] <= fetchedAt

-----------------------------------------------------------------------------
(* Matrix *)

\* What the first sync is not asked for.
Older(n) == 1 .. n - (IF HistoryLimit < n THEN HistoryLimit ELSE n)

\* Over the first connection no id is used twice.
TxnsAreFresh ==
  /\ swallowed = 0
  /\ task = "connecting" => usedTxns = {}
  /\ \A t \in usedTxns : t < txnCounter
  /\ inFlight # MaxTxns => txnCounter = inFlight + 1 /\ inFlight \notin usedTxns

MatrixInv ==
  /\ WaitInv
  /\ connectedAt \in Nat /\ unseen \in SUBSET Nat
  /\ txnCounter \in 0 .. MaxTxns /\ inFlight \in 0 .. MaxTxns
  /\ usedTxns \in SUBSET Nat /\ swallowed \in Nat
  /\ inFlight # MaxTxns => task = "sending"
  /\ restarts = 0 => TxnsAreFresh
  /\ Live => Plain(posted) \cap 1 .. position \subseteq Older(connectedAt) \cup shown \cup unseen
  /\ Rises(window) /\ UpTo(window, position)

-----------------------------------------------------------------------------
(* The directory *)

\* What the last snapshot has, when the window holds its number.
LastSeen == IF window = <<>> THEN 0 ELSE window[1]

FsInv ==
  /\ RoomInv
  /\ LastSeen \in 0 .. Len(posted)
  /\ watching \in BOOLEAN /\ cancelled \in SUBSET Nat
  /\ events \in Seq(1 .. Len(posted))
  /\ trigger \in 0 .. Len(posted)
  /\ readFrom \in 0 .. Len(posted) \cup {None}
  /\ task = "sending" => readFrom = None
  /\ readFrom = None => trigger = 0
  /\ readFrom # None => LastSeen <= readFrom /\ trigger <= readFrom
  /\ task = "connecting" =>
       /\ window = <<>> /\ trigger = 0
       /\ watching <=> readFrom # None
       /\ watching => \A n \in Plain(posted) : n <= readFrom \/ n \in ToSet(events)
  /\ Live => /\ watching
             /\ \A n \in Plain(posted) : n <= LastSeen \/ n \in ToSet(events) \/ n = trigger \/ n \in cancelled

-----------------------------------------------------------------------------
(* SQLite *)

Tables(n) == UNION {[D -> 1 .. n] : D \in SUBSET (1 .. MaxPosted)}

\* The largest number of D, or 0.
Largest(D) == CHOOSE m \in D \cup {0} : \A i \in D : i <= m

TableInv ==
  /\ RoomInv
  /\ LastSeen \in 0 .. Len(posted)
  /\ rows \in Tables(Len(posted)) /\ sawRows \in Tables(Len(posted))
  /\ poll \in {"sleeping", "signing", "reading"}
  /\ signature \in Nat \X Nat /\ last \in Nat \X Nat
  /\ onlyInserts \in BOOLEAN
  /\ task = "sending" => poll = "sleeping"
  /\ Live /\ LastSeen = Len(posted) => rows = sawRows

\* No signature is ahead of the posts it was taken after.
SignedInTime ==
  /\ Largest(DOMAIN rows) <= Len(posted)
  /\ last[2] <= LastSeen
  /\ poll = "reading" => signature[2] <= Len(posted)
  /\ onlyInserts => Largest(DOMAIN rows) = Len(posted)

SqliteInv == TableInv /\ SignedInTime

\* With a key that is the rowid no row goes, and one that is another than the
\* last snapshot's was replaced.
ReplacedInPlace ==
  /\ DOMAIN sawRows \subseteq DOMAIN rows
  /\ last[1] <= Cardinality(DOMAIN sawRows)
  /\ poll = "reading" => signature[1] <= Cardinality(DOMAIN rows)
  /\ \A i \in DOMAIN sawRows : rows[i] = sawRows[i] \/ rows[i] \in inPlace

ChatInv ==
  /\ TableInv
  /\ primaryKey \in C!PrimaryKeys
  /\ exists \in BOOLEAN
  /\ inPlace \subseteq Plain(posted)
  /\ rows # <<>> \/ Live \/ poll = "reading" => exists
  /\ IF C!KeyIsRowid THEN onlyInserts => ReplacedInPlace ELSE SignedInTime

-----------------------------------------------------------------------------
(* The listings *)

\* Entries that were all added and never touched.
Entries(m, n) == [i \in m .. n |-> i]

\* The page of the first n posts.
First(n) == Entries(1, IF n < Cap THEN n ELSE Cap)
Latest(n) == Entries(n + 1 - (IF n < Cap THEN n ELSE Cap), n)

ListingInv ==
  /\ RoomInv
  /\ rows \in Tables(Len(posted)) /\ sawRows \in Tables(Len(posted))
  /\ IsFiniteSet(DOMAIN sawRows) /\ Cardinality(DOMAIN sawRows) <= Cap
  /\ poll \in {"sleeping", "reading"}
  /\ onlyInserts \in BOOLEAN
  /\ task = "sending" => poll = "sleeping"
  /\ onlyInserts => rows = Entries(1, Len(posted))

GithubInv ==
  /\ ListingInv
  /\ onlyInserts => \E n \in 0 .. Len(posted) : sawRows = First(n)

SendsInv ==
  /\ sending \in M!SendStates
  /\ drafts \in Nat /\ running \in Nat /\ taken \in Nat /\ listed \in Nat /\ failures \in Nat
  /\ task = "sending" <=> sending # "idle"
  /\ drafts + running + listed + (IF sending = "posting" THEN 1 ELSE 0) <= taken
  /\ sending \in {"created", "starting"} => drafts >= 1
  /\ drafts <= failures + (IF sending \in {"created", "starting"} THEN 1 ELSE 0)

MaillistInv ==
  /\ ListingInv
  /\ onlyInserts => \E n \in 0 .. Len(posted) : sawRows = Latest(n)
  /\ SendsInv

-----------------------------------------------------------------------------
PollsInv ==
  /\ connector = "telegram" => TelegramInv
  /\ connector = "zulip" => ZulipInv
  /\ connector = "matrix" => MatrixInv
  /\ connector = "fs" => FsInv
  /\ connector = "sqlite" => SqliteInv
  /\ connector = "sqlite_chat" => ChatInv
  /\ connector = "github" => GithubInv
  /\ connector = "maillist" => MaillistInv

-----------------------------------------------------------------------------
(* What is posted, and windows *)

LEMMA PlainPosted ==
  ASSUME NEW p \in Seq(Kinds), NEW kind \in Kinds
  PROVE  /\ Append(p, kind) \in Seq(Kinds) /\ Len(Append(p, kind)) = Len(p) + 1
         /\ Plain(p) \subseteq 1 .. Len(p)
         /\ Plain(Append(p, kind)) \subseteq Plain(p) \cup {Len(p) + 1}
         /\ Plain(p) \subseteq Plain(Append(p, kind))
         /\ kind = "message" => Len(p) + 1 \in Plain(Append(p, kind))
<1>1. /\ Append(p, kind) \in Seq(Kinds) /\ Len(Append(p, kind)) = Len(p) + 1
      /\ Append(p, kind)[Len(p) + 1] = kind
      /\ \A i \in 1 .. Len(p) : Append(p, kind)[i] = p[i]
  BY AppendProperties
<1>2. DOMAIN p = 1 .. Len(p) /\ DOMAIN Append(p, kind) = 1 .. Len(p) + 1
  BY <1>1
<1>3. \A i \in 1 .. Len(p) + 1 : i \in 1 .. Len(p) \/ i = Len(p) + 1
  OBVIOUS
<1>4. Len(p) + 1 \in 1 .. Len(p) + 1 /\ \A i \in 1 .. Len(p) : i \in 1 .. Len(p) + 1
  OBVIOUS
<1> QED
  BY <1>1, <1>2, <1>3, <1>4 DEF Plain

\* The numbers of messages are those of posts.
LEMMA PlainIs ==
  ASSUME NEW p \in Seq(Kinds)
  PROVE  /\ Plain(p) \subseteq 1 .. Len(p) /\ Len(p) \in Nat
         /\ \A m, n : Plain(p) \cap m .. n \in SUBSET (1 .. Len(p))
BY DEF Plain

\* A window of one number.
LEMMA OneShown ==
  ASSUME NEW v \in Nat
  PROVE  <<v>> \in Seq(Nat) /\ Len(<<v>>) = 1 /\ <<v>> # <<>> /\ <<v>>[1] = v
OBVIOUS

\* A room starts with nothing posted, shown or waiting.
LEMMA StartsEmpty ==
  ASSUME RoomAssumption, posted = <<>>, window = <<>>, shown = {}, task = "connecting", queued = 0
  PROVE  RoomInv /\ Len(posted) = 0
<1>1. Len(<<>>) = 0 /\ <<>> \in Seq(Kinds) /\ <<>> \in Seq(Nat) /\ MaxPosted \in Nat /\ Cap \in Nat
  BY DEF RoomAssumption
<1> QED
  BY <1>1 DEF RoomInv, TaskStates

-----------------------------------------------------------------------------
(* The directory *)

LEMMA FsIs ==
  /\ \A s : F!ToSet(s) = ToSet(s)
  /\ F!Messages = Plain(posted)
  /\ F!Live <=> Live
  /\ F!NoRead = None
  /\ F!LastShown = LastSeen
  /\ F!EachChangeIsFollowedUp <=>
       (Live => \A n \in Plain(posted) : n <= LastSeen \/ n \in ToSet(events) \/ n = trigger \/ n \in cancelled)
<1>1. \A s : F!ToSet(s) = ToSet(s)
  BY DEF F!ToSet, ToSet
<1>2. F!Messages = Plain(posted)
  BY DEF F!Messages, Plain
<1>3. F!Live <=> Live
  BY DEF F!Live, Live
<1>4. F!NoRead = None /\ F!LastShown = LastSeen
  BY DEF F!NoRead, None, F!LastShown, LastSeen
<1> QED
  BY <1>1, <1>2, <1>3, <1>4 DEF F!EachChangeIsFollowedUp

LEMMA FsStarts ==
  ASSUME RoomAssumption, Init PROVE FsInv
<1>1. /\ posted = <<>> /\ window = <<>> /\ shown = {} /\ task = "connecting" /\ queued = 0
      /\ watching = FALSE /\ events = <<>> /\ trigger = 0 /\ readFrom = None /\ cancelled = {}
  BY FsIs DEF Init, F!Init, F!RoomInit
<1>2. ~ Live /\ None \in Nat
  BY <1>1 DEF Live, None, RoomAssumption
<1>3. RoomInv /\ Len(posted) = 0
  BY <1>1, StartsEmpty
<1>4. LastSeen = 0 /\ events \in Seq(1 .. Len(posted)) /\ 0 \in 0 .. Len(posted)
  BY <1>1, <1>3 DEF LastSeen
<1> QED
  BY <1>1, <1>2, <1>3, <1>4 DEF FsInv

LEMMA FsSteps ==
  ASSUME RoomAssumption, FsInv, F!Next PROVE FsInv'
<1> USE DEF TaskStates
<1> DEFINE n == Len(posted)
           Followed == \A k \in Plain(posted) : k <= LastSeen \/ k \in ToSet(events) \/ k = trigger \/ k \in cancelled
<1>1. /\ task \in TaskStates /\ queued \in Nat /\ shown \in SUBSET Nat
      /\ posted \in Seq(Kinds) /\ n \in Nat /\ n <= MaxPosted /\ Plain(posted) \subseteq 1 .. n
      /\ window \in Seq(Nat) /\ Len(window) <= Cap
  BY PlainIs DEF FsInv, RoomInv
<1>2. /\ LastSeen \in 0 .. n
      /\ watching \in BOOLEAN /\ cancelled \in SUBSET Nat
      /\ events \in Seq(1 .. n) /\ trigger \in 0 .. n /\ readFrom \in 0 .. n \cup {None}
      /\ task = "sending" => readFrom = None
      /\ readFrom = None => trigger = 0
      /\ readFrom # None => LastSeen <= readFrom /\ trigger <= readFrom
  BY DEF FsInv
<1>3. /\ task = "connecting" =>
           /\ window = <<>> /\ trigger = 0
           /\ watching <=> readFrom # None
           /\ watching => \A k \in Plain(posted) : k <= readFrom \/ k \in ToSet(events)
      /\ Live => watching /\ Followed
  BY DEF FsInv
<1>4. None \in Nat /\ None > n /\ Cap \in Nat /\ Cap >= 1
  BY <1>1 DEF None, RoomAssumption
<1>5. ASSUME NEW kind \in Kinds, F!FsChange(kind)
      PROVE  FsInv'
  <2>1. /\ posted' = Append(posted, kind) /\ n < MaxPosted
        /\ events' = IF watching /\ task # "ended" THEN Append(events, n + 1) ELSE events
        /\ UNCHANGED <<task, queued, window, shown, watching, trigger, readFrom, cancelled>>
    BY <1>5 DEF F!FsChange, F!Post, F!taskVars
  <2>2. /\ posted' \in Seq(Kinds) /\ Len(posted') = n + 1
        /\ Plain(posted') \subseteq Plain(posted) \cup {n + 1}
    BY <1>1, <2>1, PlainPosted
  <2>3. 1 .. n \subseteq 1 .. n + 1 /\ n + 1 \in 1 .. n + 1 /\ 0 .. n \subseteq 0 .. n + 1
    BY <1>1
  <2>4. events \in Seq(1 .. n + 1) /\ Append(events, n + 1) \in Seq(1 .. n + 1)
    BY <1>2, <2>3, SeqWider, AppendProperties
  <2>5. ToSet(Append(events, n + 1)) = ToSet(events) \cup {n + 1}
    BY <2>3, <2>4, ToSetAppend
  <2>6. /\ LastSeen' = LastSeen /\ (Live' <=> Live)
        /\ LastSeen' \in 0 .. Len(posted')
        /\ trigger' \in 0 .. Len(posted') /\ readFrom' \in 0 .. Len(posted') \cup {None}
    BY <1>2, <2>1, <2>2, <2>3 DEF LastSeen, Live, None
  <2>7. watching' /\ task' # "ended" => ToSet(events') = ToSet(events) \cup {n + 1}
    BY <2>1, <2>5
  <2>8. task' = "connecting" /\ watching' => \A k \in Plain(posted') : k <= readFrom' \/ k \in ToSet(events')
    BY <1>3, <2>1, <2>2, <2>7
  <2>9. Live' => watching' /\ Followed'
    BY <1>3, <2>1, <2>2, <2>6, <2>7 DEF Live
  <2>10. events' \in Seq(1 .. Len(posted')) /\ Len(posted') <= MaxPosted
    <3>1. MaxPosted \in Nat /\ (events' = events \/ events' = Append(events, n + 1))
      BY <2>1 DEF RoomAssumption
    <3>2. events' \in Seq(1 .. n + 1)
      BY <2>4, <3>1
    <3>3. n + 1 <= MaxPosted
      BY <1>1, <2>1, <3>1
    <3> QED
      BY <2>2, <3>2, <3>3
  <2> QED
    BY <1>1, <1>2, <1>3, <2>1, <2>2, <2>6, <2>8, <2>9, <2>10 DEF FsInv, RoomInv, None
<1>6. CASE F!Watch
  <2>1. /\ task = "connecting" /\ ~ watching /\ watching' = TRUE /\ readFrom' = n
        /\ UNCHANGED <<task, queued, posted, window, shown, events, trigger, cancelled>>
    BY <1>6 DEF F!Watch, F!taskVars, F!feedVars
  <2>2. LastSeen = 0 /\ LastSeen' = 0 /\ ~ Live'
    BY <1>3, <2>1 DEF LastSeen, Live
  <2>3. n # None /\ n \in 0 .. n
    BY <1>1, <1>4
  <2> QED
    BY <1>1, <1>2, <1>3, <2>1, <2>2, <2>3 DEF FsInv, RoomInv, None
\* The reading of the directory as it is at v.
<1>7. ASSUME NEW v \in readFrom .. n, readFrom # None,
             UNCHANGED <<queued, posted, events, watching, cancelled>>,
             window' = <<v>>, shown' = shown \cup ToSet(<<v>>), task' = "receiving",
             readFrom' = None, trigger' = 0, watching,
             \A k \in Plain(posted) : k <= readFrom \/ k \in ToSet(events) \/ k \in cancelled
      PROVE  FsInv'
  <2>1. v \in 0 .. n /\ v \in Nat /\ readFrom <= v /\ readFrom \in Nat
    BY <1>1, <1>2, <1>7
  <2>2. LastSeen' = v
    BY <1>7, <2>1, OneShown DEF LastSeen
  <2>3. window' \in Seq(Nat) /\ Len(window') <= Cap
    BY <1>4, <1>7, <2>1, OneShown
  <2>4. shown' \in SUBSET Nat
    BY <1>1, <1>7, <2>1, ToSetIs, OneShown
  <2>5. \A k \in Plain(posted) : k <= v \/ k \in ToSet(events) \/ k \in cancelled
    <3>1. \A k \in Plain(posted) : k \in Nat
      BY <1>1
    <3> QED
      BY <1>7, <2>1, <3>1
  <2>6. RoomInv'
    BY <1>1, <1>7, <2>3, <2>4 DEF RoomInv
  <2>7. trigger' \in 0 .. Len(posted') /\ LastSeen' \in 0 .. Len(posted') /\ events' \in Seq(1 .. Len(posted'))
    BY <1>1, <1>2, <1>7, <2>1, <2>2
  <2>8. watching' /\ watching' \in BOOLEAN /\ cancelled' \in SUBSET Nat /\ readFrom' = None'
    BY <1>2, <1>7 DEF None
  <2> QED
    BY <1>7, <2>2, <2>5, <2>6, <2>7, <2>8 DEF FsInv, None
<1>8. CASE F!FinishFirstRead
  <2>1. PICK v \in readFrom .. n : F!Connected(<<v>>)
    BY <1>8 DEF F!FinishFirstRead
  <2>2. /\ watching /\ task = "connecting" /\ task' = "receiving"
        /\ window' = <<v>> /\ shown' = shown \cup ToSet(<<v>>) /\ readFrom' = None
        /\ UNCHANGED <<queued, posted, watching, events, trigger, cancelled>>
    BY <1>8, <2>1, FsIs DEF F!FinishFirstRead, F!Connected, F!Show
  <2>3. readFrom # None /\ trigger = 0 /\ \A k \in Plain(posted) : k <= readFrom \/ k \in ToSet(events)
    BY <1>3, <2>2
  <2> QED
    BY <1>7, <2>2, <2>3
<1>9. CASE F!FinishRead
  <2>1. PICK v \in readFrom .. n : F!Show(<<v>>)
    BY <1>9 DEF F!FinishRead
  <2>2. /\ task = "receiving" /\ task' = "receiving" /\ readFrom # None
        /\ window' = <<v>> /\ shown' = shown \cup ToSet(<<v>>) /\ readFrom' = None /\ trigger' = 0
        /\ UNCHANGED <<queued, posted, watching, events, cancelled>>
    BY <1>9, <2>1, FsIs DEF F!FinishRead, F!Show, F!taskVars
  <2>3. watching /\ Followed /\ LastSeen <= readFrom /\ trigger <= readFrom /\ readFrom \in Nat /\ LastSeen \in Nat /\ trigger \in Nat
    BY <1>1, <1>2, <1>3, <2>2 DEF Live
  <2>4. \A k \in Plain(posted) : k <= readFrom \/ k \in ToSet(events) \/ k \in cancelled
    BY <1>1, <2>3
  <2> QED
    BY <1>7, <2>2, <2>3, <2>4
<1>10. CASE F!TakeEvent
  <2> DEFINE h == Head(events)
  <2>1. /\ task = "receiving" /\ readFrom = None /\ events # <<>> /\ events' = Tail(events)
        /\ IF h \in Plain(posted) THEN trigger' = h /\ readFrom' = n ELSE UNCHANGED <<trigger, readFrom>>
        /\ UNCHANGED <<task, queued, posted, window, shown, watching, cancelled>>
    BY <1>10, FsIs DEF F!TakeEvent, F!taskVars, F!feedVars
  <2>2. Tail(events) \in Seq(1 .. n) /\ h \in 1 .. n
    BY <1>2, <2>1, HeadTailProperties
  <2>3. ToSet(events) = ToSet(Tail(events)) \cup {h}
    BY <1>2, <2>1, ToSetTail
  <2>4. LastSeen' = LastSeen /\ trigger = 0 /\ Live /\ Live'
    BY <1>2, <2>1 DEF LastSeen, Live
  <2>5. Followed'
    <3>1. ASSUME NEW k \in Plain(posted)
          PROVE  k <= LastSeen \/ k \in ToSet(Tail(events)) \/ k = trigger' \/ k \in cancelled
      <4>1. k \in 1 .. n /\ k # 0
        BY <1>1, <3>1
      <4>2. k <= LastSeen \/ k \in ToSet(events) \/ k = trigger \/ k \in cancelled
        BY <1>3, <2>4, <3>1
      <4> QED
        BY <2>1, <2>3, <2>4, <3>1, <4>1, <4>2
    <3> QED
      BY <2>1, <2>4, <3>1
  <2>6. /\ trigger' \in 0 .. n /\ readFrom' \in 0 .. n \cup {None}
        /\ readFrom' = None => trigger' = 0
        /\ readFrom' # None => LastSeen <= readFrom' /\ trigger' <= readFrom'
    BY <1>1, <1>2, <1>4, <2>1, <2>2, <2>4
  <2> HIDE DEF n
  <2>7. task' \in TaskStates /\ posted' = posted /\ watching'
    BY <1>3, <2>1, <2>4
  <2> QED
    BY <1>1, <1>2, <2>1, <2>2, <2>4, <2>5, <2>6, <2>7 DEF FsInv, RoomInv, None, n
<1>11. CASE F!Cancel
  <2>1. /\ task = "receiving" /\ queued > 0 /\ queued' = queued - 1 /\ task' \in {"sending", "receiving"}
        /\ cancelled' = IF trigger = 0 THEN cancelled ELSE cancelled \cup {trigger}
        /\ trigger' = 0 /\ readFrom' = None
        /\ UNCHANGED <<posted, window, shown, watching, events>>
    BY <1>11, FsIs DEF F!Cancel, F!TakeIntent, F!feedVars
  <2>2. LastSeen' = LastSeen /\ Live /\ queued' \in Nat /\ cancelled' \in SUBSET Nat /\ trigger' \in 0 .. n
    <3>1. trigger \in Nat
      BY <1>1, <1>2
    <3> QED
      BY <1>1, <1>2, <2>1, <3>1 DEF LastSeen, Live
  <2>3. Followed'
    <3>1. \A k \in Plain(posted) : k # 0
      BY <1>1
    <3> QED
      BY <1>3, <2>1, <2>2, <3>1
  <2> QED
    BY <1>1, <1>2, <1>3, <2>1, <2>2, <2>3 DEF FsInv, RoomInv, None
<1>12. CASE (F!SubmitIntent \/ F!SendReturns \/ F!TaskEnds) /\ UNCHANGED F!fsVars
  <2>1. /\ UNCHANGED <<posted, window, shown, watching, events, trigger, readFrom, cancelled>>
        /\ task' \in TaskStates \ {"connecting"} /\ queued' \in Nat
        /\ (task' = "sending" => task = "sending") /\ (Live' => Live)
    BY <1>1, <1>12, FsIs
       DEF F!SubmitIntent, F!SendReturns, F!TaskEnds, F!feedVars, F!fsVars, Live
  <2>2. LastSeen' = LastSeen /\ (Live' => watching' /\ Followed')
    BY <1>3, <2>1 DEF LastSeen
  <2> QED
    BY <1>1, <1>2, <2>1, <2>2 DEF FsInv, RoomInv, None
<1> QED
  BY <1>5, <1>6, <1>8, <1>9, <1>10, <1>11, <1>12 DEF F!Next, Kinds

-----------------------------------------------------------------------------
(* SQLite: tables *)

LEMMA LargestIs ==
  ASSUME NEW n \in Nat, NEW D \in SUBSET (1 .. n)
  PROVE  /\ Largest(D) \in D \cup {0} /\ Largest(D) \in 0 .. n
         /\ \A i \in D : i <= Largest(D)
<1> DEFINE Bounds == {m \in Nat : \A i \in D : i <= m}
<1>1. n \in Bounds
  OBVIOUS
<1>2. PICK m \in Bounds : \A k \in Bounds : m <= k
  <2>1. Bounds \in SUBSET Nat /\ Bounds # {}
    BY <1>1
  <2> HIDE DEF Bounds
  <2> QED
    BY <2>1, LeastNumber
<1>3. m \in D \cup {0}
  <2> SUFFICES ASSUME m \notin D, m # 0 PROVE FALSE
    OBVIOUS
  <2>1. m - 1 \in Nat /\ \A i \in D : i \in Nat /\ i <= m /\ i # m
    BY <1>2
  <2>2. m - 1 \in Bounds
    BY <1>2, <2>1
  <2> QED
    BY <1>2, <2>2
<1>4. Largest(D) \in D \cup {0} /\ \A i \in D : i <= Largest(D)
  BY <1>2, <1>3 DEF Largest
<1>5. D \cup {0} \subseteq 0 .. n
  OBVIOUS
<1> QED
  BY <1>4, <1>5

LEMMA LargestOf ==
  ASSUME NEW n \in Nat, NEW D \in SUBSET (1 .. n), NEW m \in D \cup {0}, \A i \in D : i <= m
  PROVE  Largest(D) = m
<1>1. Largest(D) \in D \cup {0} /\ Largest(D) \in 0 .. n /\ \A i \in D : i <= Largest(D)
  BY LargestIs
<1>2. CASE m = 0
  <2>1. D = {}
    BY <1>2
  <2> QED
    BY <1>1, <1>2, <2>1
<1>3. CASE m \in D
  <2>1. m \in 1 .. n /\ m <= Largest(D)
    BY <1>1, <1>3
  <2>2. Largest(D) \in D
    BY <1>1, <2>1
  <2>3. Largest(D) <= m
    BY <2>2
  <2> QED
    BY <1>1, <2>1, <2>3
<1> QED
  BY <1>2, <1>3

\* What a table is.
LEMMA TableIs ==
  ASSUME NEW n, NEW t
  PROVE  t \in Tables(n) <=> DOMAIN t \in SUBSET (1 .. MaxPosted) /\ t \in [DOMAIN t -> 1 .. n]
BY DEF Tables

LEMMA TableGrows ==
  ASSUME NEW n \in Nat, NEW t \in Tables(n)
  PROVE  t \in Tables(n + 1)
<1>1. 1 .. n \subseteq 1 .. n + 1
  OBVIOUS
<1>2. DOMAIN t \in SUBSET (1 .. MaxPosted) /\ t \in [DOMAIN t -> 1 .. n]
  BY TableIs
<1>3. t \in [DOMAIN t -> 1 .. n + 1]
  BY <1>1, <1>2
<1> QED
  BY <1>2, <1>3, TableIs

\* The keys of a table are finitely many.
LEMMA KeysAre ==
  ASSUME RoomAssumption, NEW n, NEW t \in Tables(n)
  PROVE  /\ DOMAIN t \in SUBSET (1 .. MaxPosted) /\ MaxPosted \in Nat
         /\ IsFiniteSet(DOMAIN t) /\ Cardinality(DOMAIN t) \in Nat
         /\ Largest(DOMAIN t) \in DOMAIN t \cup {0} /\ Largest(DOMAIN t) \in 0 .. MaxPosted
         /\ \A i \in DOMAIN t : i <= Largest(DOMAIN t)
<1>1. DOMAIN t \in SUBSET (1 .. MaxPosted) /\ MaxPosted \in Nat
  BY TableIs DEF RoomAssumption
<1>2. IsFiniteSet(DOMAIN t) /\ Cardinality(DOMAIN t) \in 0 .. MaxPosted
  BY <1>1, Enumerated
<1> QED
  BY <1>1, <1>2, LargestIs

\* A write of the next post's number to row i, of a table that rows `gone` leave.
Wrote(t, i, gone, v) == [j \in (DOMAIN t \ gone) \cup {i} |-> IF j = i THEN v ELSE t[j]]

LEMMA WroteIs ==
  ASSUME RoomAssumption, NEW n \in Nat, NEW t \in Tables(n), NEW i \in 1 .. MaxPosted, NEW gone
  PROVE  /\ Wrote(t, i, gone, n + 1) \in Tables(n + 1)
         /\ DOMAIN Wrote(t, i, gone, n + 1) = (DOMAIN t \ gone) \cup {i}
         /\ Wrote(t, i, gone, n + 1)[i] = n + 1
         /\ \A j \in DOMAIN t \ gone : j # i => Wrote(t, i, gone, n + 1)[j] = t[j]
<1> DEFINE w == Wrote(t, i, gone, n + 1)
           D == (DOMAIN t \ gone) \cup {i}
<1>1. DOMAIN t \in SUBSET (1 .. MaxPosted) /\ t \in [DOMAIN t -> 1 .. n]
  BY TableIs
<1>2. 1 .. n \subseteq 1 .. n + 1 /\ n + 1 \in 1 .. n + 1
  OBVIOUS
<1>3. DOMAIN w = D /\ D \in SUBSET (1 .. MaxPosted)
  BY <1>1 DEF Wrote
<1>4. \A j \in D : w[j] = IF j = i THEN n + 1 ELSE t[j]
  BY DEF Wrote
<1>5. \A j \in D : w[j] \in 1 .. n + 1
  BY <1>1, <1>2, <1>4
<1>6. w = [j \in D |-> w[j]]
  BY DEF Wrote
<1>7. w \in [DOMAIN w -> 1 .. n + 1]
  <2> HIDE DEF w, D
  <2> QED
    BY <1>3, <1>5, <1>6
<1> QED
  BY <1>3, <1>4, <1>7, TableIs

LEMMA WithoutIs ==
  ASSUME NEW n \in Nat, NEW t \in Tables(n), NEW i
  PROVE  /\ [j \in DOMAIN t \ {i} |-> t[j]] \in Tables(n + 1)
         /\ DOMAIN [j \in DOMAIN t \ {i} |-> t[j]] = DOMAIN t \ {i}
<1>1. t \in Tables(n + 1)
  BY TableGrows
<1>2. DOMAIN t \in SUBSET (1 .. MaxPosted) /\ t \in [DOMAIN t -> 1 .. n + 1]
  BY <1>1, TableIs
<1>3. [j \in DOMAIN t \ {i} |-> t[j]] \in [DOMAIN t \ {i} -> 1 .. n + 1]
  BY <1>2
<1> QED
  BY <1>2, <1>3, TableIs

LEMMA ChangedIs ==
  ASSUME NEW n \in Nat, NEW t \in Tables(n), NEW i, NEW u,
         u = [j \in DOMAIN t \ {i} |-> t[j]] \/ u = [t EXCEPT ![i] = n + 1]
  PROVE  u \in Tables(n + 1) /\ DOMAIN u \subseteq DOMAIN t
<1>1. t \in Tables(n + 1) /\ n + 1 \in 1 .. n + 1
  BY TableGrows
<1>2. DOMAIN t \in SUBSET (1 .. MaxPosted) /\ t \in [DOMAIN t -> 1 .. n + 1]
  BY <1>1, TableIs
<1>3. CASE u = [j \in DOMAIN t \ {i} |-> t[j]]
  BY <1>3, WithoutIs
<1>4. CASE u = [t EXCEPT ![i] = n + 1]
  <2>1. DOMAIN u = DOMAIN t /\ u \in [DOMAIN u -> 1 .. n + 1]
    BY <1>1, <1>2, <1>4
  <2> QED
    BY <1>2, <2>1, TableIs
<1> QED
  BY <1>3, <1>4

LEMMA LargestOfFewer ==
  ASSUME NEW n \in Nat, NEW D \in SUBSET (1 .. n), NEW E \in SUBSET D
  PROVE  Largest(E) <= Largest(D)
<1>1. Largest(D) \in 0 .. n /\ \A i \in D : i <= Largest(D)
  BY LargestIs
<1>2. E \in SUBSET (1 .. n)
  OBVIOUS
<1>3. Largest(E) \in E \cup {0}
  BY <1>2, LargestIs
<1>4. CASE Largest(E) = 0
  BY <1>1, <1>4
<1>5. CASE Largest(E) \in D
  BY <1>1, <1>5
<1> QED
  BY <1>3, <1>4, <1>5

-----------------------------------------------------------------------------
(* SQLite: what the steps of both modes do *)

Sign == <<Cardinality(DOMAIN rows), Largest(DOMAIN rows)>>

\* A write.
Writes(t) ==
  /\ Len(posted) < MaxPosted
  /\ posted' = Append(posted, "message")
  /\ rows' = t
  /\ UNCHANGED <<task, queued, window, shown, poll, signature, last, sawRows>>

\* A step of the poll that shows nothing, and any of the room's intents.
LooksOnly ==
  /\ UNCHANGED <<posted, window, shown, rows, last, sawRows, onlyInserts>>
  /\ task' \in TaskStates /\ queued' \in Nat /\ (Live' => Live)
  /\ poll' \in {"sleeping", "signing", "reading"}
  /\ task' = "sending" => poll' = "sleeping"
  /\ signature' \in {signature, Sign}
  /\ poll' = "reading" => (poll = "reading" /\ UNCHANGED signature) \/ signature' = Sign

\* The rows are read and shown.
ShowsRows ==
  /\ poll = "reading" /\ poll' = "sleeping"
  /\ task \in {"connecting", "receiving"} /\ task' = "receiving"
  /\ window' = <<Len(posted)>>
  /\ shown' = shown \cup ToSet(<<Len(posted)>>)
  /\ sawRows' = rows /\ last' = signature
  /\ UNCHANGED <<queued, posted, rows, signature, onlyInserts>>

LEMMA TableWritten ==
  ASSUME RoomAssumption, TableInv, NEW t \in Tables(Len(posted) + 1), Writes(t), onlyInserts' \in BOOLEAN
  PROVE  /\ TableInv' /\ Len(posted') = Len(posted) + 1 /\ LastSeen' = LastSeen
         /\ Len(posted) + 1 \in Plain(posted') /\ Plain(posted) \subseteq Plain(posted')
<1> DEFINE n == Len(posted)
<1>1. /\ posted \in Seq(Kinds) /\ n \in Nat /\ n < MaxPosted /\ "message" \in Kinds /\ MaxPosted \in Nat
      /\ LastSeen \in 0 .. n /\ rows \in Tables(n) /\ sawRows \in Tables(n)
  BY DEF TableInv, RoomInv, Writes, Kinds, RoomAssumption
<1>2. /\ posted' \in Seq(Kinds) /\ Len(posted') = n + 1 /\ n + 1 <= MaxPosted
      /\ Plain(posted) \subseteq Plain(posted') /\ n + 1 \in Plain(posted')
  BY <1>1, PlainPosted DEF Writes
<1>3. LastSeen' = LastSeen /\ LastSeen \in 0 .. n + 1 /\ LastSeen # n + 1
  BY <1>1 DEF LastSeen, Writes
<1>4. sawRows \in Tables(n + 1)
  BY <1>1, TableGrows
<1> HIDE DEF n
<1>5. RoomInv'
  BY <1>2 DEF TableInv, RoomInv, Writes
<1> QED
  BY <1>2, <1>3, <1>4, <1>5 DEF TableInv, Writes, n

LEMMA TableLooked ==
  ASSUME RoomAssumption, TableInv, LooksOnly
  PROVE  TableInv' /\ LastSeen' = LastSeen /\ Sign \in Nat \X Nat
<1>1. Sign \in Nat \X Nat
  <2>1. Cardinality(DOMAIN rows) \in Nat /\ Largest(DOMAIN rows) \in Nat
    BY KeysAre DEF TableInv
  <2> QED
    BY <2>1 DEF Sign
<1>2. RoomInv' /\ LastSeen' = LastSeen
  BY DEF TableInv, LooksOnly, RoomInv, LastSeen
<1>3. signature' \in Nat \X Nat
  BY <1>1 DEF TableInv, LooksOnly
<1> QED
  BY <1>1, <1>2, <1>3 DEF TableInv, LooksOnly

LEMMA TableShown ==
  ASSUME RoomAssumption, TableInv, ShowsRows
  PROVE  TableInv' /\ LastSeen' = Len(posted) /\ Len(posted) \in Nat
<1>1. posted \in Seq(Kinds) /\ Len(posted) \in Nat /\ Cap \in Nat \ {0}
  BY DEF TableInv, RoomInv, RoomAssumption
<1>2. LastSeen' = Len(posted)
  BY <1>1, OneShown DEF LastSeen, ShowsRows
<1>3. RoomInv'
  <2>1. window' \in Seq(Nat) /\ Len(window') <= Cap
    BY <1>1, OneShown DEF ShowsRows
  <2>2. shown' \in SUBSET Nat
    BY <1>1, ToSetIs, OneShown DEF ShowsRows, TableInv, RoomInv
  <2> QED
    BY <2>1, <2>2 DEF TableInv, ShowsRows, RoomInv, TaskStates
<1> QED
  BY <1>1, <1>2, <1>3 DEF TableInv, ShowsRows

\* The signature is that of a table no newer than what the next snapshot is of.
LEMMA SignedLooked ==
  ASSUME RoomAssumption, TableInv, SignedInTime, LooksOnly
  PROVE  SignedInTime'
<1>1. LastSeen' = LastSeen
  BY TableLooked
<1>2. Sign[2] = Largest(DOMAIN rows)
  BY DEF Sign
<1> QED
  BY <1>1, <1>2 DEF SignedInTime, LooksOnly

LEMMA SignedShown ==
  ASSUME RoomAssumption, TableInv, SignedInTime, ShowsRows
  PROVE  SignedInTime'
<1>1. LastSeen' = Len(posted)
  BY TableShown
<1> QED
  BY <1>1 DEF SignedInTime, ShowsRows

LEMMA SignedWritten ==
  ASSUME RoomAssumption, TableInv, SignedInTime, NEW t \in Tables(Len(posted) + 1), Writes(t),
         onlyInserts' \in BOOLEAN,
         Largest(DOMAIN t) <= Len(posted) + 1,
         onlyInserts' => onlyInserts /\ Largest(DOMAIN t) = Largest(DOMAIN rows) + 1
  PROVE  SignedInTime'
<1>1. LastSeen' = LastSeen /\ Len(posted') = Len(posted) + 1 /\ Len(posted) \in Nat
  <2>1. posted \in Seq(Kinds)
    BY DEF TableInv, RoomInv
  <2> QED
    BY <2>1, TableWritten
<1>2. signature[2] \in Nat
  BY DEF TableInv
<1> QED
  BY <1>1, <1>2 DEF SignedInTime, Writes
-----------------------------------------------------------------------------
(* SQLite: a table somebody else made *)

LEMMA SqliteIs ==
  /\ \A s : Q!ToSet(s) = ToSet(s)
  /\ Q!Live <=> Live
  /\ \A t : Q!MaxRowid(t) = Largest(DOMAIN t)
  /\ Q!Signature(rows) = Sign
  /\ Q!GrowthIsNeverHidden <=> (Live /\ onlyInserts /\ Sign = last => rows = sawRows)
<1>1. \A s : Q!ToSet(s) = ToSet(s)
  BY DEF Q!ToSet, ToSet
<1>2. Q!Live <=> Live
  BY DEF Q!Live, Live
<1>3. \A t : Q!MaxRowid(t) = Largest(DOMAIN t)
  BY DEF Q!MaxRowid, Largest
<1>4. \A A : Q!Cardinality(A) = Cardinality(A)
  BY DEF Q!Cardinality, Cardinality, Q!IsFiniteSet, IsFiniteSet
<1>5. Q!Signature(rows) = Sign
  BY <1>3, <1>4 DEF Q!Signature, Sign
<1> QED
  BY <1>1, <1>2, <1>3, <1>5 DEF Q!GrowthIsNeverHidden

LEMMA SqliteStarts ==
  ASSUME RoomAssumption, Init, connector # "sqlite_chat" PROVE SqliteInv
<1>1. /\ posted = <<>> /\ window = <<>> /\ shown = {} /\ task = "connecting" /\ queued = 0
      /\ rows = <<>> /\ poll = "sleeping" /\ signature = <<0, 0>> /\ last = <<0, 0>> /\ sawRows = <<>>
      /\ onlyInserts = TRUE
  BY DEF Init, Q!Init, Q!RoomInit
<1>2. RoomInv /\ Len(posted) = 0 /\ LastSeen = 0 /\ LastSeen \in 0 .. Len(posted)
  BY <1>1, StartsEmpty DEF LastSeen
<1>3. DOMAIN <<>> = {} /\ <<>> \in [{} -> 1 .. 0] /\ {} \in SUBSET (1 .. MaxPosted)
  OBVIOUS
<1>4. rows \in Tables(Len(posted)) /\ sawRows \in Tables(Len(posted))
  BY <1>1, <1>2, <1>3, TableIs
<1>5. Largest(DOMAIN rows) = 0
  BY <1>1, <1>3 DEF Largest
<1>6. last[2] = 0 /\ last \in Nat \X Nat
  BY <1>1
<1> QED
  BY <1>1, <1>2, <1>4, <1>5, <1>6 DEF SqliteInv, TableInv, SignedInTime

LEMMA SqliteSteps ==
  ASSUME RoomAssumption, SqliteInv, Q!Next PROVE SqliteInv'
<1> DEFINE n == Len(posted)
           top == Largest(DOMAIN rows)
<1>1. /\ TableInv /\ SignedInTime /\ rows \in Tables(n) /\ posted \in Seq(Kinds) /\ n \in Nat
      /\ onlyInserts \in BOOLEAN
  BY DEF SqliteInv, TableInv, RoomInv
<1>2. /\ DOMAIN rows \in SUBSET (1 .. MaxPosted) /\ MaxPosted \in Nat
      /\ top \in DOMAIN rows \cup {0} /\ top \in 0 .. MaxPosted
      /\ \A i \in DOMAIN rows : i <= top
  BY <1>1, KeysAre
<1>3. top <= n
  BY <1>1 DEF SignedInTime
<1>4. CASE LooksOnly
  BY <1>1, <1>4, TableLooked, SignedLooked DEF SqliteInv
<1>5. CASE ShowsRows
  BY <1>1, <1>5, TableShown, SignedShown DEF SqliteInv
<1>6. CASE Q!Insert
  <2> DEFINE t == Wrote(rows, top + 1, {}, n + 1)
  <2>1. n < MaxPosted /\ posted' = Append(posted, "message") /\ onlyInserts' = onlyInserts
        /\ UNCHANGED <<task, queued, window, shown, poll, signature, last, sawRows>>
        /\ rows' = [i \in DOMAIN rows \cup {top + 1} |-> IF i \in DOMAIN rows THEN rows[i] ELSE n + 1]
    BY <1>6, SqliteIs DEF Q!Insert, Q!Post, Q!taskVars
  <2>2. top + 1 \notin DOMAIN rows /\ top + 1 \in 1 .. MaxPosted /\ top \in Nat
    BY <1>1, <1>2, <1>3, <2>1
  <2>3. rows' = t
    <3>1. (DOMAIN rows \ {}) \cup {top + 1} = DOMAIN rows \cup {top + 1}
      OBVIOUS
    <3>2. \A i \in DOMAIN rows \cup {top + 1} :
            (IF i \in DOMAIN rows THEN rows[i] ELSE n + 1) = (IF i = top + 1 THEN n + 1 ELSE rows[i])
      BY <2>2
    <3> QED
      BY <2>1, <3>1, <3>2 DEF Wrote
  <2>4. t \in Tables(n + 1) /\ DOMAIN t = DOMAIN rows \cup {top + 1}
    <3>1. DOMAIN t = DOMAIN rows \cup {top + 1}
      BY DEF Wrote
    <3> HIDE DEF top, n
    <3>2. t \in Tables(n + 1)
      BY <1>1, <2>2, WroteIs
    <3> QED
      BY <3>1, <3>2
  <2> HIDE DEF t
  <2>5. Writes(t)
    BY <2>1, <2>3 DEF Writes
  <2>6. Largest(DOMAIN t) = top + 1
    <3>1. DOMAIN t \in SUBSET (1 .. MaxPosted) /\ top + 1 \in DOMAIN t /\ \A i \in DOMAIN t : i <= top + 1
      BY <1>2, <2>2, <2>4
    <3> QED
      BY <1>2, <3>1, LargestOf
  <2>7. TableInv'
    BY <1>1, <2>1, <2>4, <2>5, TableWritten
  <2>8. SignedInTime'
    BY <1>1, <1>3, <2>1, <2>2, <2>4, <2>5, <2>6, SignedWritten
  <2> QED
    BY <2>7, <2>8 DEF SqliteInv
<1>7. ASSUME NEW i \in 1 .. MaxPosted, Q!Delete(i) \/ Q!Update(i)
      PROVE  SqliteInv'
  <2>1. n < MaxPosted /\ posted' = Append(posted, "message") /\ onlyInserts' = FALSE /\ i \in DOMAIN rows
        /\ UNCHANGED <<task, queued, window, shown, poll, signature, last, sawRows>>
        /\ \/ rows' = [j \in DOMAIN rows \ {i} |-> rows[j]]
           \/ rows' = [rows EXCEPT ![i] = n + 1]
    BY <1>7 DEF Q!Delete, Q!Update, Q!Post, Q!taskVars
  <2>2. rows' \in Tables(n + 1) /\ DOMAIN rows' \subseteq DOMAIN rows
    BY <1>1, <2>1, ChangedIs
  <2>3. Writes(rows')
    BY <2>1 DEF Writes
  <2>4. Largest(DOMAIN rows') <= n + 1
    <3>1. Largest(DOMAIN rows') <= top /\ Largest(DOMAIN rows') \in 0 .. MaxPosted
      BY <1>2, <2>2, LargestOfFewer, LargestIs
    <3> QED
      BY <1>1, <1>2, <1>3, <3>1
  <2>5. TableInv' /\ SignedInTime'
    <3>1. \A u \in Tables(n + 1) : Writes(u) /\ Largest(DOMAIN u) <= n + 1 => TableInv' /\ SignedInTime'
      BY <1>1, <2>1, TableWritten, SignedWritten
    <3> QED
      BY <2>2, <2>3, <2>4, <3>1
  <2> QED
    BY <2>5 DEF SqliteInv
<1>8. CASE Q!ConnectReads \/ Q!Reads
  <2>1. ShowsRows
    BY <1>8, SqliteIs DEF Q!ConnectReads, Q!Reads, Q!ShowRows, Q!Show, Q!taskVars, ShowsRows
  <2> QED
    BY <1>5, <2>1
<1>9. CASE Q!ConnectSigns \/ Q!Wake \/ Q!Signs
  <2>1. LooksOnly
    BY <1>1, <1>9, SqliteIs
       DEF Q!ConnectSigns, Q!Wake, Q!Signs, Q!taskVars, Q!feedVars, LooksOnly, TableInv, RoomInv, TaskStates, Live
  <2> QED
    BY <1>4, <2>1
<1>10. CASE Q!Cancel \/ ((Q!SubmitIntent \/ Q!SendReturns \/ Q!TaskEnds) /\ UNCHANGED Q!sqliteVars)
  <2>1. LooksOnly
    BY <1>1, <1>10, SqliteIs
       DEF Q!Cancel, Q!TakeIntent, Q!SubmitIntent, Q!SendReturns, Q!TaskEnds, Q!feedVars, Q!sqliteVars,
           LooksOnly, TableInv, RoomInv, TaskStates, Live
  <2> QED
    BY <1>4, <2>1
<1> QED
  BY <1>6, <1>7, <1>8, <1>9, <1>10 DEF Q!Next

\* A table as large as the last post has nothing a snapshot of then lacks.
LEMMA SqliteGrowth ==
  ASSUME SqliteInv PROVE Q!GrowthIsNeverHidden
<1> SUFFICES ASSUME Live, onlyInserts, Sign = last PROVE rows = sawRows
  BY SqliteIs
<1>1. last[2] = Largest(DOMAIN rows)
  BY DEF Sign
<1>2. Largest(DOMAIN rows) = Len(posted) /\ last[2] <= LastSeen /\ LastSeen \in 0 .. Len(posted)
  BY DEF SqliteInv, SignedInTime, TableInv
<1>3. posted \in Seq(Kinds)
  BY DEF SqliteInv, TableInv, RoomInv
<1>4. LastSeen = Len(posted)
  BY <1>1, <1>2, <1>3
<1> QED
  BY <1>4 DEF SqliteInv, TableInv

-----------------------------------------------------------------------------
(* SQLite: a chat log *)

LEMMA ChatIs ==
  /\ \A s : C!ToSet(s) = ToSet(s)
  /\ C!Live <=> Live
  /\ \A t : C!MaxRowid(t) = Largest(DOMAIN t)
  /\ C!Signature(rows) = Sign
  /\ C!Messages = Plain(posted)
<1>1. \A s : C!ToSet(s) = ToSet(s)
  BY DEF C!ToSet, ToSet
<1>2. C!Live <=> Live
  BY DEF C!Live, Live
<1>3. \A t : C!MaxRowid(t) = Largest(DOMAIN t)
  BY DEF C!MaxRowid, Largest
<1>4. \A A : C!Cardinality(A) = Cardinality(A)
  BY DEF C!Cardinality, Cardinality, C!IsFiniteSet, IsFiniteSet
<1>5. C!Signature(rows) = Sign
  BY <1>3, <1>4 DEF C!Signature, Sign
<1>6. C!Messages = Plain(posted)
  BY DEF C!Messages, Plain
<1> QED
  BY <1>1, <1>2, <1>3, <1>5, <1>6

LEMMA ChatStarts ==
  ASSUME RoomAssumption, Init, connector = "sqlite_chat" PROVE ChatInv
<1>1. /\ posted = <<>> /\ window = <<>> /\ shown = {} /\ task = "connecting" /\ queued = 0
      /\ rows = <<>> /\ poll = "sleeping" /\ signature = <<0, 0>> /\ last = <<0, 0>> /\ sawRows = <<>>
      /\ onlyInserts = TRUE /\ primaryKey \in C!PrimaryKeys /\ exists \in BOOLEAN /\ inPlace = {}
  BY DEF Init, C!ChatInit, C!Init, C!RoomInit
<1>2. RoomInv /\ Len(posted) = 0 /\ LastSeen = 0 /\ LastSeen \in 0 .. Len(posted)
  BY <1>1, StartsEmpty DEF LastSeen
<1>3. DOMAIN <<>> = {} /\ <<>> \in [{} -> 1 .. 0] /\ {} \in SUBSET (1 .. MaxPosted)
  OBVIOUS
<1>4. rows \in Tables(Len(posted)) /\ sawRows \in Tables(Len(posted))
  BY <1>1, <1>2, <1>3, TableIs
<1>5. Largest(DOMAIN rows) = 0 /\ Cardinality(DOMAIN rows) = 0
  BY <1>1, <1>3, FS_EmptySet DEF Largest
<1>6. last[2] = 0 /\ last[1] = 0 /\ last \in Nat \X Nat
  BY <1>1
<1>7. TableInv
  BY <1>1, <1>2, <1>4, <1>6 DEF TableInv
<1>8. SignedInTime
  BY <1>1, <1>2, <1>5, <1>6 DEF SignedInTime
<1>9. ReplacedInPlace
  BY <1>1, <1>3, <1>5, <1>6 DEF ReplacedInPlace
<1> QED
  BY <1>1, <1>7, <1>8, <1>9 DEF ChatInv, Live

\* What a step of chat mode does to the columns that are its own.
ChatKept == UNCHANGED <<primaryKey, exists, inPlace>>

LEMMA ChatSteps ==
  ASSUME RoomAssumption, ChatInv, C!ChatNext PROVE ChatInv'
<1> DEFINE n == Len(posted)
           top == Largest(DOMAIN rows)
           Rowid == C!KeyIsRowid
<1>1. /\ TableInv /\ rows \in Tables(n) /\ sawRows \in Tables(n) /\ posted \in Seq(Kinds) /\ n \in Nat
      /\ onlyInserts \in BOOLEAN
      /\ primaryKey \in C!PrimaryKeys /\ exists \in BOOLEAN /\ inPlace \subseteq Plain(posted)
      /\ (rows # <<>> \/ Live \/ poll = "reading" => exists)
      /\ Rowid /\ onlyInserts => ReplacedInPlace
      /\ ~ Rowid => SignedInTime
  BY DEF ChatInv, TableInv, RoomInv
<1>2. /\ DOMAIN rows \in SUBSET (1 .. MaxPosted) /\ MaxPosted \in Nat
      /\ IsFiniteSet(DOMAIN rows) /\ Cardinality(DOMAIN rows) \in Nat
      /\ top \in DOMAIN rows \cup {0} /\ top \in 0 .. MaxPosted
      /\ \A i \in DOMAIN rows : i <= top
  BY <1>1, KeysAre
<1>3. ~ Rowid => top <= n
  BY <1>1 DEF SignedInTime
\* Any step that keeps the key.
<1>4. ASSUME TableInv', UNCHANGED primaryKey, exists' \in BOOLEAN, inPlace' \subseteq Plain(posted'),
             rows' # <<>> \/ Live' \/ poll' = "reading" => exists',
             Rowid /\ onlyInserts' => ReplacedInPlace', ~ Rowid => SignedInTime'
      PROVE  ChatInv'
  <2>1. Rowid' <=> Rowid
    BY <1>4 DEF C!KeyIsRowid
  <2>2. primaryKey' \in C!PrimaryKeys'
    BY <1>1, <1>4 DEF C!PrimaryKeys, C!ChatDefault
  <2> QED
    BY <1>4, <2>1, <2>2 DEF ChatInv
<1>5. CASE LooksOnly /\ UNCHANGED <<primaryKey, inPlace>> /\ exists' \in BOOLEAN
             /\ (exists => exists') /\ (poll' = "reading" => poll = "reading" \/ exists' \/ Live)
  <2>1. TableInv' /\ Sign \in Nat \X Nat
    BY <1>1, <1>5, TableLooked
  <2>2. ~ Rowid => SignedInTime'
    BY <1>1, <1>5, SignedLooked
  <2>3. ASSUME Rowid, onlyInserts'
        PROVE  ReplacedInPlace'
    <3>1. ReplacedInPlace
      BY <1>1, <1>5, <2>3 DEF LooksOnly
    <3>2. Sign[1] = Cardinality(DOMAIN rows)
      BY DEF Sign
    <3>3. poll' = "reading" => signature'[1] <= Cardinality(DOMAIN rows)
      BY <1>2, <1>5, <3>1, <3>2 DEF ReplacedInPlace, LooksOnly
    <3> QED
      BY <1>5, <3>1, <3>3 DEF ReplacedInPlace, LooksOnly
  <2> QED
    BY <1>1, <1>4, <1>5, <2>1, <2>2, <2>3 DEF LooksOnly
<1>6. CASE ShowsRows /\ ChatKept
  <2>1. TableInv'
    BY <1>1, <1>6, TableShown
  <2>2. ~ Rowid => SignedInTime'
    BY <1>1, <1>6, SignedShown
  <2>3. Rowid /\ onlyInserts' => ReplacedInPlace'
    BY <1>1, <1>6 DEF ReplacedInPlace, ShowsRows
  <2> QED
    BY <1>1, <1>4, <1>6, <2>1, <2>2, <2>3 DEF ShowsRows, ChatKept
\* An insert, also one that replaces a row.
<1>7. ASSUME NEW i \in 1 .. MaxPosted, NEW gone \in SUBSET DOMAIN rows, C!Put(i, gone),
             Rowid => /\ gone = {}
                      /\ \/ i \notin DOMAIN rows /\ inPlace' = inPlace
                         \/ inPlace' = inPlace \cup {n + 1},
             ~ Rowid => i = top + 1 /\ inPlace' = inPlace
      PROVE  ChatInv'
  <2> DEFINE t == Wrote(rows, i, gone, n + 1)
  <2>1. n < MaxPosted /\ posted' = Append(posted, "message") /\ exists /\ rows' = t
        /\ UNCHANGED <<task, queued, window, shown, poll, signature, last, sawRows, onlyInserts, primaryKey, exists>>
    BY <1>7 DEF C!Put, C!Post, C!taskVars, Wrote
  <2>2. DOMAIN t = (DOMAIN rows \ gone) \cup {i} /\ t[i] = n + 1
    BY DEF Wrote
  <2>3. \A j \in DOMAIN t : j # i => t[j] = rows[j]
    BY DEF Wrote
  <2> HIDE DEF n, top
  <2>4. t \in Tables(n + 1)
    BY <1>1, WroteIs
  <2> HIDE DEF t
  <2>5. Writes(t)
    BY <2>1 DEF Writes, n
  <2>6. /\ TableInv' /\ Len(posted') = n + 1
        /\ n + 1 \in Plain(posted') /\ Plain(posted) \subseteq Plain(posted')
    BY <1>1, <2>1, <2>4, <2>5, TableWritten DEF n
  <2>7. ASSUME ~ Rowid
        PROVE  SignedInTime'
    <3>1. i = top + 1 /\ top <= n /\ top \in Nat
      BY <1>2, <1>3, <1>7, <2>7
    <3>2. DOMAIN t \in SUBSET (1 .. MaxPosted) /\ i \in DOMAIN t /\ \A j \in DOMAIN t : j <= i
      BY <1>2, <2>2, <3>1
    <3>3. Largest(DOMAIN t) = i
      BY <1>2, <3>2, LargestOf
    <3> QED
      BY <1>1, <2>1, <2>4, <2>5, <2>7, <3>1, <3>3, SignedWritten DEF n, top
  <2>8. ASSUME Rowid, onlyInserts'
        PROVE  ReplacedInPlace'
    <3>1. ReplacedInPlace /\ gone = {}
      BY <1>1, <1>7, <2>1, <2>8
    <3>2. DOMAIN t = DOMAIN rows \cup {i}
      BY <2>2, <3>1
    <3>3. Cardinality(DOMAIN rows) <= Cardinality(DOMAIN t) /\ Cardinality(DOMAIN t) \in Nat
      <4>1. IsFiniteSet(DOMAIN t)
        BY <1>2, <3>2, FS_AddElement
      <4> QED
        BY <3>2, <4>1, FS_Subset, FS_CardinalityType
    <3>4. poll = "reading" => signature[1] <= Cardinality(DOMAIN t)
      <4>1. signature[1] \in Nat
        BY <1>1 DEF TableInv
      <4> QED
        BY <1>2, <3>1, <3>3, <4>1 DEF ReplacedInPlace
    <3>5. \A j \in DOMAIN sawRows : t[j] = sawRows[j] \/ t[j] \in inPlace'
      BY <1>7, <2>2, <2>3, <2>8, <3>1, <3>2 DEF ReplacedInPlace
    <3> QED
      BY <2>1, <3>1, <3>2, <3>4, <3>5 DEF ReplacedInPlace
  <2>9. inPlace' \subseteq Plain(posted')
    BY <1>1, <1>7, <2>6
  <2> QED
    BY <1>1, <1>4, <2>1, <2>6, <2>7, <2>8, <2>9 DEF Live
<1>8. CASE C!InsertRow
  <2>1. PICK i \in 1 .. MaxPosted : i \notin DOMAIN rows /\ (Rowid \/ i = top + 1) /\ C!Put(i, {})
    BY <1>8, ChatIs DEF C!InsertRow
  <2>2. inPlace' = inPlace /\ {} \in SUBSET DOMAIN rows
    BY <1>8 DEF C!InsertRow
  <2> QED
    BY <1>7, <2>1, <2>2
<1>9. ASSUME NEW i \in 1 .. MaxPosted, C!Replace(i)
      PROVE  ChatInv'
  <2>1. CASE Rowid
    <3>1. C!Put(i, {}) /\ inPlace' = inPlace \cup {n + 1} /\ {} \in SUBSET DOMAIN rows
      BY <1>9, <2>1 DEF C!Replace
    <3> QED
      BY <1>7, <2>1, <3>1
  <2>2. CASE ~ Rowid
    <3>1. C!Put(top + 1, {i}) /\ inPlace' = inPlace /\ {i} \in SUBSET DOMAIN rows
      BY <1>9, <2>2, ChatIs DEF C!Replace
    <3>2. n < MaxPosted
      BY <3>1 DEF C!Put, C!Post
    <3>3. top + 1 \in 1 .. MaxPosted
      BY <1>1, <1>2, <1>3, <2>2, <3>2
    <3> QED
      BY <1>7, <2>2, <3>1, <3>3
  <2> QED
    BY <2>1, <2>2
<1>10. ASSUME NEW i \in 1 .. MaxPosted, C!Execute(i)
       PROVE  ChatInv'
  <2>1. /\ n < MaxPosted /\ posted' = Append(posted, "message") /\ onlyInserts' = FALSE /\ i \in DOMAIN rows
        /\ exists
        /\ UNCHANGED <<task, queued, window, shown, poll, signature, last, sawRows, primaryKey, exists, inPlace>>
        /\ \/ rows' = [j \in DOMAIN rows \ {i} |-> rows[j]]
           \/ rows' = [rows EXCEPT ![i] = n + 1]
    BY <1>10 DEF C!Execute, C!Delete, C!Update, C!Post, C!taskVars, C!chatVars
  <2>2. rows' \in Tables(n + 1) /\ DOMAIN rows' \subseteq DOMAIN rows
    BY <1>1, <2>1, ChangedIs
  <2>3. Writes(rows')
    BY <2>1 DEF Writes
  <2>4. ~ Rowid => Largest(DOMAIN rows') <= n + 1
    <3>1. Largest(DOMAIN rows') <= top /\ Largest(DOMAIN rows') \in 0 .. MaxPosted
      BY <1>2, <2>2, LargestOfFewer, LargestIs
    <3> QED
      BY <1>1, <1>2, <1>3, <3>1
  <2>5. /\ TableInv' /\ (~ Rowid => SignedInTime')
        /\ Plain(posted) \subseteq Plain(posted')
    <3>1. \A u \in Tables(n + 1) :
            /\ Writes(u) => TableInv' /\ Plain(posted) \subseteq Plain(posted')
            /\ Writes(u) /\ SignedInTime /\ Largest(DOMAIN u) <= n + 1 => SignedInTime'
      BY <1>1, <2>1, TableWritten, SignedWritten
    <3> QED
      BY <1>1, <2>2, <2>3, <2>4, <3>1
  <2> QED
    BY <1>1, <1>4, <2>1, <2>5 DEF Live
<1>11. CASE C!ChatConnect \/ C!ChatPoll
  <2>1. CASE C!ConnectReads \/ C!Reads
    <3>1. ShowsRows /\ ChatKept
      BY <1>11, <2>1, ChatIs
         DEF C!ConnectReads, C!Reads, C!ShowRows, C!Show, C!taskVars, C!chatVars, ShowsRows, ChatKept,
             C!ChatConnect, C!ChatPoll, C!ConnectSigns, C!Wake, C!Signs
    <3> QED
      BY <1>6, <3>1
  <2>2. CASE ~ (C!ConnectReads \/ C!Reads)
    <3>1. /\ LooksOnly
          /\ UNCHANGED <<primaryKey, inPlace>>
          /\ \/ exists' = TRUE
             \/ exists' = exists /\ Live
      BY <1>1, <1>11, <2>2, ChatIs
         DEF C!ChatConnect, C!ChatPoll, C!ConnectSigns, C!Wake, C!Signs, C!taskVars, C!feedVars, C!chatVars,
             LooksOnly, TableInv, RoomInv, TaskStates, Live
    <3>2. exists' \in BOOLEAN /\ (exists => exists') /\ (exists' \/ Live)
      <4>1. CASE exists' = TRUE
        BY <4>1
      <4>2. CASE exists' = exists /\ Live
        BY <1>1, <4>2
      <4> QED
        BY <3>1, <4>1, <4>2
    <3> QED
      BY <1>5, <3>1, <3>2
  <2> QED
    BY <2>1, <2>2
<1>12. CASE \/ C!Cancel /\ UNCHANGED C!chatVars
            \/ (C!SubmitIntent \/ C!SendReturns \/ C!TaskEnds) /\ UNCHANGED <<C!sqliteVars, C!chatVars>>
  <2>1. LooksOnly /\ UNCHANGED <<primaryKey, exists, inPlace>> /\ (poll' = "reading" => poll = "reading")
    BY <1>1, <1>12, ChatIs
       DEF C!Cancel, C!TakeIntent, C!SubmitIntent, C!SendReturns, C!TaskEnds, C!feedVars, C!sqliteVars,
           C!chatVars, LooksOnly, TableInv, RoomInv, TaskStates, Live
  <2> QED
    BY <1>1, <1>5, <2>1
<1> QED
  BY <1>8, <1>9, <1>10, <1>11, <1>12 DEF C!ChatNext

\* No row is replaced under another rowid without a greater one; one that is replaced
\* under its own is known.
LEMMA ChatGrowth ==
  ASSUME RoomAssumption, ChatInv PROVE C!ReplacementIsHiddenOnlyInPlace
<1> SUFFICES ASSUME Live, onlyInserts, Sign = last
             PROVE  /\ DOMAIN rows = DOMAIN sawRows
                    /\ \A i \in DOMAIN rows : rows[i] = sawRows[i] \/ (C!KeyIsRowid /\ rows[i] \in inPlace)
  BY ChatIs DEF C!ReplacementIsHiddenOnlyInPlace
<1>1. last[1] = Cardinality(DOMAIN rows) /\ last[2] = Largest(DOMAIN rows)
  BY DEF Sign
<1>2. TableInv /\ posted \in Seq(Kinds) /\ LastSeen \in 0 .. Len(posted)
  BY DEF ChatInv, TableInv, RoomInv
<1>3. CASE C!KeyIsRowid
  <2>1. ReplacedInPlace
    BY <1>3 DEF ChatInv
  <2>2. IsFiniteSet(DOMAIN rows) /\ Cardinality(DOMAIN rows) \in Nat /\ Cardinality(DOMAIN sawRows) \in Nat
    BY <1>2, KeysAre DEF TableInv
  <2>3. Cardinality(DOMAIN sawRows) <= Cardinality(DOMAIN rows)
    BY <2>1, <2>2, FS_Subset DEF ReplacedInPlace
  <2>4. Cardinality(DOMAIN sawRows) = Cardinality(DOMAIN rows)
    BY <1>1, <2>1, <2>2, <2>3 DEF ReplacedInPlace
  <2>5. DOMAIN rows = DOMAIN sawRows
    BY <2>1, <2>2, <2>4, FS_Subset DEF ReplacedInPlace
  <2> QED
    BY <1>3, <2>1, <2>5 DEF ReplacedInPlace
<1>4. CASE ~ C!KeyIsRowid
  <2>1. Largest(DOMAIN rows) = Len(posted) /\ last[2] <= LastSeen
    BY <1>4 DEF ChatInv, SignedInTime
  <2>2. LastSeen = Len(posted)
    BY <1>1, <1>2, <2>1
  <2> QED
    BY <1>2, <2>2 DEF TableInv
<1> QED
  BY <1>3, <1>4

-----------------------------------------------------------------------------
(* Listings: pages *)

Below(D, i) == {j \in D : j < i}
Above(D, i) == {j \in D : j > i}

OldestOf(D) == {i \in D : Cardinality(Below(D, i)) < Cap}
NewestOf(D) == {i \in D : Cardinality(Above(D, i)) < Cap}

Page(t, D) == [i \in D |-> t[i]]

\* Of more than k numbers one has k below it, and one has k above it.
LEMMA SomeBeyond ==
  ASSUME NEW n \in Nat, NEW D \in SUBSET (1 .. n), NEW A \in SUBSET D, NEW k \in Nat, Cardinality(A) > k
  PROVE  /\ \E x \in A : Cardinality(Below(D, x)) >= k
         /\ \E x \in A : Cardinality(Above(D, x)) >= k
<1> DEFINE s == InOrder(A)
           c == Cardinality(A)
<1>1. A \in SUBSET (1 .. n)
  OBVIOUS
<1>2. s \in Seq(A) /\ Len(s) = c /\ c \in 0 .. n /\ Rises(s)
  BY <1>1, InOrderIs
<1> HIDE DEF s, c
<1>3. c \in Nat /\ c > k /\ \A i \in 1 .. c : s[i] \in A
  BY <1>2 DEF c
<1>4. \A i, j \in 1 .. c : i < j => s[i] < s[j]
  BY <1>2 DEF Rises
<1>5. ASSUME NEW B \in SUBSET D, NEW o \in 0 .. c - k, \A i \in 1 .. k : s[i + o] \in B
      PROVE  Cardinality(B) >= k
  <2>1. IsFiniteSet(B) /\ Cardinality(B) \in Nat
    <3>1. B \in SUBSET (1 .. n)
      OBVIOUS
    <3>2. IsFiniteSet(B) /\ Cardinality(B) \in 0 .. n
      BY <3>1, Enumerated
    <3> QED
      BY <3>2
  <2> DEFINE r == [i \in 1 .. k |-> s[i + o]]
  <2>2. r \in [1 .. k -> B] /\ \A i \in 1 .. k : r[i] = s[i + o]
    BY <1>5
  <2>3. \A i \in 1 .. k : i + o \in 1 .. c
    BY <1>3, <1>5
  <2> HIDE DEF r
  <2>4. \A i \in 1 .. k : r[i] \in Nat
    <3>1. B \subseteq Nat
      OBVIOUS
    <3> QED
      BY <2>2, <3>1
  <2>5. \A i, j \in 1 .. k : i < j => r[i] < r[j]
    <3>1. \A i, j \in 1 .. k : i < j => i + o < j + o
      BY <1>3, <1>5
    <3> QED
      BY <1>4, <2>2, <2>3, <3>1
  <2>6. k <= Cardinality(B)
    BY <2>1, <2>2, <2>4, <2>5, RoomForRising
  <2> QED
    BY <2>1, <2>6
<1>6. \E x \in A : Cardinality(Below(D, x)) >= k
  <2> DEFINE x == s[k + 1]
             B == Below(D, x)
  <2>1. k + 1 \in 1 .. c /\ x \in A
    BY <1>3
  <2>2. \A i \in 1 .. k : s[i + 0] \in B
    <3>1. \A i \in 1 .. k : i + 0 = i /\ i \in 1 .. c /\ i < k + 1
      BY <1>3
    <3>2. \A i \in 1 .. k : s[i] \in A /\ s[i] < x
      BY <1>3, <1>4, <2>1, <3>1
    <3> QED
      BY <3>1, <3>2 DEF Below
  <2>3. B \in SUBSET D /\ 0 \in 0 .. c - k
    BY <1>3 DEF Below
  <2> HIDE DEF B
  <2>4. Cardinality(B) >= k
    BY <1>5, <2>2, <2>3
  <2> QED
    BY <2>1, <2>4 DEF B
<1>7. \E x \in A : Cardinality(Above(D, x)) >= k
  <2> DEFINE x == s[c - k]
             B == Above(D, x)
  <2>1. c - k \in 1 .. c /\ x \in A
    BY <1>3
  <2>2. \A i \in 1 .. k : s[i + (c - k)] \in B
    <3>1. \A i \in 1 .. k : i + (c - k) \in 1 .. c /\ c - k < i + (c - k)
      BY <1>3
    <3>2. \A i \in 1 .. k : s[i + (c - k)] \in A /\ x < s[i + (c - k)]
      BY <1>3, <1>4, <2>1, <3>1
    <3>3. \A y \in A : y \in D /\ y \in Nat
      OBVIOUS
    <3> QED
      BY <2>1, <3>2, <3>3 DEF Above
  <2>3. B \in SUBSET D /\ c - k \in 0 .. c - k
    BY <1>3 DEF Above
  <2> HIDE DEF B
  <2>4. Cardinality(B) >= k
    BY <1>5, <2>2, <2>3
  <2> QED
    BY <2>1, <2>4 DEF B
<1> QED
  BY <1>6, <1>7

\* A page has no more than Cap entries.
LEMMA PagesAreShort ==
  ASSUME RoomAssumption, NEW D \in SUBSET (1 .. MaxPosted)
  PROVE  \A A \in {OldestOf(D), NewestOf(D)} :
           A \in SUBSET D /\ IsFiniteSet(A) /\ Cardinality(A) <= Cap
<1>1. MaxPosted \in Nat /\ Cap \in Nat
  BY DEF RoomAssumption
<1>2. \A x \in D : Cardinality(Below(D, x)) \in Nat /\ Cardinality(Above(D, x)) \in Nat
  <2> SUFFICES ASSUME NEW x \in D
               PROVE  Cardinality(Below(D, x)) \in Nat /\ Cardinality(Above(D, x)) \in Nat
    OBVIOUS
  <2>1. Below(D, x) \in SUBSET (1 .. MaxPosted) /\ Above(D, x) \in SUBSET (1 .. MaxPosted)
    BY DEF Below, Above
  <2>2. /\ Cardinality(Below(D, x)) \in 0 .. MaxPosted
        /\ Cardinality(Above(D, x)) \in 0 .. MaxPosted
    BY <1>1, <2>1, Enumerated
  <2> QED
    BY <2>2
<1>3. ASSUME NEW A \in SUBSET D, Cardinality(A) > Cap
      PROVE  A # OldestOf(D) /\ A # NewestOf(D)
  <2>1. /\ \E x \in A : Cardinality(Below(D, x)) >= Cap
        /\ \E x \in A : Cardinality(Above(D, x)) >= Cap
    BY <1>1, <1>3, SomeBeyond
  <2>2. PICK x \in A : Cardinality(Below(D, x)) >= Cap
    BY <2>1
  <2>3. PICK y \in A : Cardinality(Above(D, y)) >= Cap
    BY <2>1
  <2>4. ~ (Cardinality(Below(D, x)) < Cap) /\ ~ (Cardinality(Above(D, y)) < Cap)
    BY <1>1, <1>2, <2>2, <2>3
  <2>5. x \notin OldestOf(D) /\ y \notin NewestOf(D)
    BY <2>4 DEF OldestOf, NewestOf
  <2> QED
    BY <2>5
<1>4. OldestOf(D) \in SUBSET D /\ NewestOf(D) \in SUBSET D
  BY DEF OldestOf, NewestOf
<1>5. ASSUME NEW A \in SUBSET D PROVE IsFiniteSet(A) /\ Cardinality(A) \in Nat
  <2>1. A \in SUBSET (1 .. MaxPosted)
    OBVIOUS
  <2>2. IsFiniteSet(A) /\ Cardinality(A) \in 0 .. MaxPosted
    BY <1>1, <2>1, Enumerated
  <2> QED
    BY <2>2
<1> QED
  BY <1>1, <1>3, <1>4, <1>5

Fewer(a, b) == IF a < b THEN a ELSE b

\* The pages of entries that were all added and never touched.
LEMMA PagesOfEntries ==
  ASSUME RoomAssumption, NEW n \in Nat
  PROVE  /\ Page(Entries(1, n), OldestOf(1 .. n)) = First(n)
         /\ Page(Entries(1, n), NewestOf(1 .. n)) = Latest(n)
         /\ DOMAIN First(n) = 1 .. Fewer(n, Cap) /\ Cardinality(DOMAIN First(n)) = Fewer(n, Cap)
         /\ Cardinality(DOMAIN Latest(n)) = Fewer(n, Cap) /\ Fewer(n, Cap) \in 0 .. n
         /\ n <= Cap => First(n) = Entries(1, n) /\ Latest(n) = Entries(1, n)
<1> DEFINE m == Fewer(n, Cap)
<1>1. Cap \in Nat \ {0} /\ m \in 0 .. n /\ m <= Cap /\ (n <= Cap => m = n) /\ (Cap <= n => m = Cap)
  BY DEF RoomAssumption, Fewer
<1>2. First(n) = Entries(1, m) /\ Latest(n) = Entries(n + 1 - m, n)
  BY DEF First, Latest, Fewer
<1> HIDE DEF m
<1>3. \A i \in 1 .. n : Cardinality(Below(1 .. n, i)) = i - 1 /\ Cardinality(Above(1 .. n, i)) = n - i
  <2> SUFFICES ASSUME NEW i \in 1 .. n
               PROVE  Cardinality(Below(1 .. n, i)) = i - 1 /\ Cardinality(Above(1 .. n, i)) = n - i
    OBVIOUS
  <2>1. Below(1 .. n, i) = 1 .. i - 1 /\ Above(1 .. n, i) = i + 1 .. n
    BY DEF Below, Above
  <2>2. Cardinality(1 .. i - 1) = i - 1
    BY FS_Interval
  <2>3. Cardinality(i + 1 .. n) = n - i
    BY FS_Interval
  <2> QED
    BY <2>1, <2>2, <2>3
<1>4. OldestOf(1 .. n) = 1 .. m
  <2>1. \A i \in 1 .. n : i - 1 < Cap <=> i <= m
    BY <1>1
  <2>2. \A i : i \in 1 .. m <=> i \in 1 .. n /\ i <= m
    BY <1>1
  <2> QED
    BY <1>3, <2>1, <2>2 DEF OldestOf
<1>5. NewestOf(1 .. n) = n + 1 - m .. n
  <2>1. \A i \in 1 .. n : n - i < Cap <=> n + 1 - m <= i
    BY <1>1
  <2>2. \A i : i \in n + 1 - m .. n <=> i \in 1 .. n /\ n + 1 - m <= i
    BY <1>1
  <2> QED
    BY <1>3, <2>1, <2>2 DEF NewestOf
<1>6. Page(Entries(1, n), OldestOf(1 .. n)) = First(n)
  <2>1. \A i \in 1 .. m : i \in 1 .. n
    BY <1>1
  <2> QED
    BY <1>2, <1>4, <2>1 DEF Page, Entries
<1>7. Page(Entries(1, n), NewestOf(1 .. n)) = Latest(n)
  <2>1. \A i \in n + 1 - m .. n : i \in 1 .. n
    BY <1>1
  <2> QED
    BY <1>2, <1>5, <2>1 DEF Page, Entries
<1>8. DOMAIN First(n) = 1 .. m /\ DOMAIN Latest(n) = n + 1 - m .. n
  BY <1>2 DEF Entries
<1>9. Cardinality(1 .. m) = m /\ Cardinality(n + 1 - m .. n) = m
  <2>1. Cardinality(1 .. m) = m
    BY <1>1, FS_Interval
  <2>2. n + 1 - m \in Int /\ (n + 1 - m > n <=> m = 0) /\ n - (n + 1 - m) + 1 = m
    BY <1>1
  <2>3. Cardinality(n + 1 - m .. n) = m
    BY <2>2, FS_Interval
  <2> QED
    BY <2>1, <2>3
<1>10. n <= Cap => n + 1 - m = 1 /\ m = n
  BY <1>1
<1> QED
  BY <1>1, <1>2, <1>6, <1>7, <1>8, <1>9, <1>10 DEF m

-----------------------------------------------------------------------------
(* Listings: what their steps do *)

\* An entry is added.
Adds ==
  /\ Len(posted) < MaxPosted
  /\ posted' = Append(posted, "message")
  /\ rows' = [i \in DOMAIN rows \cup {Len(posted) + 1} |->
                IF i \in DOMAIN rows THEN rows[i] ELSE Len(posted) + 1]
  /\ UNCHANGED <<task, queued, window, shown, poll, sawRows, onlyInserts>>

\* One is withdrawn or edited.
Touches ==
  /\ Len(posted) < MaxPosted
  /\ posted' = Append(posted, "other")
  /\ rows' \in Tables(Len(posted) + 1)
  /\ onlyInserts' = FALSE
  /\ UNCHANGED <<task, queued, window, shown, poll, sawRows>>

\* A step that shows nothing.
LooksAway ==
  /\ UNCHANGED <<posted, window, shown, rows, sawRows, onlyInserts>>
  /\ task' \in TaskStates /\ queued' \in Nat /\ poll' \in {"sleeping", "reading"}
  /\ task' = "sending" => poll' = "sleeping"

\* The page of the rows D is shown.
ShowsPage(D) ==
  /\ task' = "receiving" /\ poll' \in {"sleeping", "reading"}
  /\ window' = InOrder(D) /\ shown' = shown \cup ToSet(InOrder(D))
  /\ sawRows' = Page(rows, D)
  /\ UNCHANGED <<queued, posted, rows, onlyInserts>>

LEMMA ListingAdds ==
  ASSUME RoomAssumption, ListingInv, Adds
  PROVE  ListingInv' /\ Len(posted') = Len(posted) + 1 /\ UNCHANGED <<sawRows, onlyInserts>>
<1> DEFINE n == Len(posted)
<1>1. /\ posted \in Seq(Kinds) /\ n \in Nat /\ n < MaxPosted /\ "message" \in Kinds /\ MaxPosted \in Nat
      /\ rows \in Tables(n) /\ sawRows \in Tables(n)
  BY DEF ListingInv, RoomInv, Adds, Kinds, RoomAssumption
<1>2. /\ posted' \in Seq(Kinds) /\ Len(posted') = n + 1 /\ n + 1 <= MaxPosted
  BY <1>1, PlainPosted DEF Adds
<1>3. rows \in Tables(n + 1) /\ sawRows \in Tables(n + 1)
  BY <1>1, TableGrows
<1>4. rows' \in Tables(n + 1)
  <2>1. DOMAIN rows \in SUBSET (1 .. MaxPosted) /\ rows \in [DOMAIN rows -> 1 .. n + 1]
    BY <1>3, TableIs
  <2>2. n + 1 \in 1 .. n + 1 /\ n + 1 \in 1 .. MaxPosted
    BY <1>1
  <2>3. DOMAIN rows' = DOMAIN rows \cup {n + 1}
    BY DEF Adds
  <2>4. rows' \in [DOMAIN rows' -> 1 .. n + 1]
    <3>1. \A i \in DOMAIN rows \cup {n + 1} : (IF i \in DOMAIN rows THEN rows[i] ELSE n + 1) \in 1 .. n + 1
      BY <2>1, <2>2
    <3> QED
      BY <2>3, <3>1 DEF Adds
  <2> QED
    BY <2>1, <2>2, <2>3, <2>4, TableIs
<1>5. onlyInserts => rows' = Entries(1, n + 1)
  <2> SUFFICES ASSUME onlyInserts PROVE rows' = Entries(1, n + 1)
    OBVIOUS
  <2>1. rows = Entries(1, n)
    BY DEF ListingInv
  <2>2. DOMAIN rows = 1 .. n /\ \A i \in 1 .. n : rows[i] = i
    BY <2>1 DEF Entries
  <2>3. (1 .. n) \cup {n + 1} = 1 .. n + 1 /\ \A i \in 1 .. n + 1 : i \in 1 .. n \/ i = n + 1
    BY <1>1
  <2> QED
    BY <2>2, <2>3 DEF Adds, Entries
<1> HIDE DEF n
<1>6. RoomInv'
  BY <1>2 DEF ListingInv, RoomInv, Adds
<1> QED
  BY <1>2, <1>3, <1>4, <1>5, <1>6 DEF ListingInv, Adds, n

LEMMA ListingTouched ==
  ASSUME RoomAssumption, ListingInv, Touches
  PROVE  ListingInv' /\ ~ onlyInserts'
<1>1. /\ posted \in Seq(Kinds) /\ Len(posted) \in Nat /\ "other" \in Kinds
      /\ rows \in Tables(Len(posted)) /\ sawRows \in Tables(Len(posted)) /\ MaxPosted \in Nat
  BY DEF ListingInv, RoomInv, Kinds, RoomAssumption
<1>2. /\ posted' \in Seq(Kinds) /\ Len(posted') = Len(posted) + 1 /\ Len(posted) + 1 <= MaxPosted
  BY <1>1, PlainPosted DEF Touches
<1>3. sawRows \in Tables(Len(posted) + 1)
  BY <1>1, TableGrows
<1>4. RoomInv'
  BY <1>2 DEF ListingInv, RoomInv, Touches
<1> QED
  BY <1>2, <1>3, <1>4 DEF ListingInv, Touches

LEMMA ListingLooksAway ==
  ASSUME RoomAssumption, ListingInv, LooksAway
  PROVE  ListingInv' /\ UNCHANGED <<posted, sawRows, onlyInserts>>
<1>1. RoomInv'
  BY DEF ListingInv, RoomInv, LooksAway
<1> QED
  BY <1>1 DEF ListingInv, LooksAway

LEMMA ListingShown ==
  ASSUME RoomAssumption, ListingInv, NEW D \in SUBSET DOMAIN rows, IsFiniteSet(D), Cardinality(D) <= Cap,
         ShowsPage(D)
  PROVE  ListingInv' /\ UNCHANGED <<posted, rows, onlyInserts>> /\ sawRows' = Page(rows, D)
<1> DEFINE n == Len(posted)
<1>1. /\ rows \in Tables(n) /\ MaxPosted \in Nat /\ posted \in Seq(Kinds)
  BY DEF ListingInv, RoomInv, RoomAssumption
<1>2. DOMAIN rows \in SUBSET (1 .. MaxPosted) /\ rows \in [DOMAIN rows -> 1 .. n]
  BY <1>1, TableIs
<1>3. D \in SUBSET (1 .. MaxPosted)
  BY <1>2
<1>4. DOMAIN Page(rows, D) = D /\ Page(rows, D) \in [D -> 1 .. n]
  BY <1>2 DEF Page
<1>5. Page(rows, D) \in Tables(n)
  BY <1>3, <1>4, TableIs
<1>6. InOrder(D) \in Seq(D) /\ Len(InOrder(D)) = Cardinality(D) /\ ToSet(InOrder(D)) = D
  BY <1>1, <1>3, InOrderIs
<1>7. InOrder(D) \in Seq(Nat)
  <2>1. D \subseteq Nat
    BY <1>3
  <2> QED
    BY <1>6, <2>1, SeqWider
<1>8. RoomInv'
  <2>1. shown' \in SUBSET Nat
    <3>1. D \subseteq Nat /\ shown \in SUBSET Nat
      BY <1>3 DEF ListingInv, RoomInv
    <3>2. shown' = shown \cup D
      BY <1>6 DEF ShowsPage
    <3> QED
      BY <3>1, <3>2
  <2> QED
    BY <1>6, <1>7, <2>1 DEF ListingInv, RoomInv, ShowsPage, TaskStates
<1> HIDE DEF n
<1>9. rows' \in Tables(Len(posted')) /\ sawRows' \in Tables(Len(posted'))
  BY <1>1, <1>5 DEF ShowsPage, n
<1>10. IsFiniteSet(DOMAIN sawRows') /\ Cardinality(DOMAIN sawRows') <= Cap
  BY <1>4 DEF ShowsPage
<1> QED
  BY <1>8, <1>9, <1>10 DEF ListingInv, ShowsPage

-----------------------------------------------------------------------------
(* GitHub *)

LEMMA GithubIs ==
  /\ \A s : H!ToSet(s) = ToSet(s)
  /\ H!Live <=> Live
  /\ \A A : H!Sorted(A) = InOrder(A)
  /\ \A t : H!Count(t) = Cardinality(DOMAIN t)
  /\ H!OldestPage(rows) = Page(rows, OldestOf(DOMAIN rows))
<1>1. \A s : H!ToSet(s) = ToSet(s)
  BY DEF H!ToSet, ToSet
<1>2. H!Live <=> Live
  BY DEF H!Live, Live
<1>3. \A A : H!Cardinality(A) = Cardinality(A)
  BY DEF H!Cardinality, Cardinality, H!IsFiniteSet, IsFiniteSet
<1>4. \A A : H!Sorted(A) = InOrder(A)
  BY <1>3 DEF H!Sorted, InOrder
<1>5. \A t : H!Count(t) = Cardinality(DOMAIN t)
  BY <1>3 DEF H!Count
<1>6. H!OldestPage(rows) = Page(rows, OldestOf(DOMAIN rows))
  BY <1>3 DEF H!OldestPage, H!Restricted, Page, OldestOf, Below
<1> QED
  BY <1>1, <1>2, <1>4, <1>5, <1>6

LEMMA ListingStarts ==
  ASSUME RoomAssumption, Init, connector # "sqlite_chat"
  PROVE  /\ ListingInv /\ posted = <<>> /\ Len(posted) = 0 /\ sawRows = Entries(1, 0) /\ task = "connecting"
<1>1. /\ posted = <<>> /\ window = <<>> /\ shown = {} /\ task = "connecting" /\ queued = 0
      /\ rows = <<>> /\ poll = "sleeping" /\ sawRows = <<>> /\ onlyInserts = TRUE
  BY DEF Init, Q!Init, Q!RoomInit
<1>2. RoomInv /\ Len(posted) = 0
  BY <1>1, StartsEmpty
<1>3. DOMAIN <<>> = {} /\ <<>> \in [{} -> 1 .. 0] /\ {} \in SUBSET (1 .. MaxPosted)
  OBVIOUS
<1>4. rows \in Tables(Len(posted)) /\ sawRows \in Tables(Len(posted))
  BY <1>1, <1>2, <1>3, TableIs
<1>5. <<>> = Entries(1, 0)
  <2>1. 1 .. 0 = {}
    OBVIOUS
  <2>2. \A f : f \in [{} -> {}] => f = <<>>
    OBVIOUS
  <2>3. Entries(1, 0) \in [{} -> {}]
    BY <2>1 DEF Entries
  <2> QED
    BY <2>2, <2>3
<1>6. Cap \in Nat /\ IsFiniteSet(DOMAIN sawRows) /\ Cardinality(DOMAIN sawRows) = 0
  BY <1>1, <1>3, FS_EmptySet DEF RoomAssumption
<1> QED
  BY <1>1, <1>2, <1>4, <1>5, <1>6 DEF ListingInv

LEMMA GithubStarts ==
  ASSUME RoomAssumption, Init, connector # "sqlite_chat" PROVE GithubInv
<1>1. ListingInv /\ Len(posted) = 0 /\ sawRows = Entries(1, 0)
  BY ListingStarts
<1>2. First(0) = Entries(1, 0)
  BY PagesOfEntries DEF RoomAssumption
<1> QED
  BY <1>1, <1>2 DEF GithubInv

LEMMA GithubSteps ==
  ASSUME RoomAssumption, GithubInv, H!Next PROVE GithubInv'
<1> DEFINE n == Len(posted)
           Seen(m) == \E k \in 0 .. m : sawRows = First(k)
<1>1. /\ ListingInv /\ rows \in Tables(n) /\ posted \in Seq(Kinds) /\ n \in Nat /\ MaxPosted \in Nat
      /\ task \in TaskStates /\ queued \in Nat
      /\ poll \in {"sleeping", "reading"} /\ (task = "sending" => poll = "sleeping")
  BY DEF GithubInv, ListingInv, RoomInv, RoomAssumption
<1>2. onlyInserts => Seen(n)
  BY DEF GithubInv
<1>3. DOMAIN rows \in SUBSET (1 .. MaxPosted)
  BY <1>1, TableIs
<1>4. CASE Adds
  <2>1. ListingInv' /\ Len(posted') = n + 1 /\ UNCHANGED <<sawRows, onlyInserts>>
    BY <1>1, <1>4, ListingAdds
  <2>2. 0 .. n \subseteq 0 .. n + 1
    BY <1>1
  <2> QED
    BY <1>2, <2>1, <2>2 DEF GithubInv
<1>5. CASE Touches
  BY <1>1, <1>5, ListingTouched DEF GithubInv
<1>6. CASE LooksAway
  BY <1>1, <1>2, <1>6, ListingLooksAway DEF GithubInv
<1>7. CASE ShowsPage(OldestOf(DOMAIN rows))
  <2>1. /\ OldestOf(DOMAIN rows) \in SUBSET DOMAIN rows /\ IsFiniteSet(OldestOf(DOMAIN rows))
        /\ Cardinality(OldestOf(DOMAIN rows)) <= Cap
    BY <1>3, PagesAreShort
  <2>2. /\ ListingInv' /\ UNCHANGED <<posted, rows, onlyInserts>>
        /\ sawRows' = Page(rows, OldestOf(DOMAIN rows))
    BY <1>1, <1>7, <2>1, ListingShown
  <2>3. onlyInserts => sawRows' = First(n)
    <3>1. onlyInserts => rows = Entries(1, n) /\ DOMAIN rows = 1 .. n
      BY <1>1 DEF ListingInv, Entries
    <3> QED
      BY <1>1, <2>2, <3>1, PagesOfEntries
  <2>4. n \in 0 .. n
    BY <1>1
  <2> QED
    BY <2>2, <2>3, <2>4 DEF GithubInv
<1>8. CASE H!Add
  <2>1. Adds
    BY <1>8 DEF H!Add, H!Post, H!taskVars, Adds
  <2> QED
    BY <1>4, <2>1
<1>9. ASSUME NEW i \in 1 .. MaxPosted, H!Withdraw(i) \/ H!Edit(i)
      PROVE  GithubInv'
  <2>1. /\ n < MaxPosted /\ posted' = Append(posted, "other") /\ onlyInserts' = FALSE
        /\ UNCHANGED <<task, queued, window, shown, poll, sawRows>>
        /\ \/ rows' = [j \in DOMAIN rows \ {i} |-> rows[j]]
           \/ rows' = [rows EXCEPT ![i] = n + 1]
    BY <1>9 DEF H!Withdraw, H!Edit, H!Post, H!taskVars, H!Restricted
  <2>2. rows' \in Tables(n + 1)
    BY <1>1, <2>1, ChangedIs
  <2> QED
    BY <1>5, <2>1, <2>2 DEF Touches
<1>10. CASE H!Wake \/ H!Cancel \/ ((H!SubmitIntent \/ H!SendReturns \/ H!TaskEnds) /\ UNCHANGED H!listVars)
  <2>1. LooksAway
    BY <1>1, <1>10, GithubIs
       DEF H!Wake, H!Cancel, H!TakeIntent, H!SubmitIntent, H!SendReturns, H!TaskEnds, H!taskVars, H!feedVars,
           H!listVars, LooksAway, TaskStates, Live
  <2> QED
    BY <1>6, <2>1
<1>11. CASE H!Connect
  <2>1. DOMAIN Page(rows, OldestOf(DOMAIN rows)) = OldestOf(DOMAIN rows)
    BY DEF Page
  <2>2. ShowsPage(OldestOf(DOMAIN rows))
    BY <1>1, <1>11, <2>1, GithubIs DEF H!Connect, H!ListConnected, H!ShowPage, H!Show, ShowsPage
  <2> QED
    BY <1>7, <2>2
<1>12. CASE H!Fetch
  <2> DEFINE page == H!OldestPage(rows)
  <2>1. /\ task = "receiving" /\ poll' = "sleeping"
        /\ H!ShowPage(page) \/ UNCHANGED <<window, shown, sawRows>>
        /\ UNCHANGED <<task, queued, posted, rows, onlyInserts>>
    BY <1>12 DEF H!Fetch, H!Fetched, H!taskVars
  <2>2. CASE H!ShowPage(page)
    <3>1. DOMAIN Page(rows, OldestOf(DOMAIN rows)) = OldestOf(DOMAIN rows)
      BY DEF Page
    <3>2. ShowsPage(OldestOf(DOMAIN rows))
      BY <2>1, <2>2, <3>1, GithubIs DEF H!ShowPage, H!Show, ShowsPage
    <3> QED
      BY <1>7, <3>2
  <2>3. CASE UNCHANGED <<window, shown, sawRows>>
    <3>1. LooksAway
      BY <1>1, <2>1, <2>3 DEF LooksAway, TaskStates
    <3> QED
      BY <1>6, <3>1
  <2> QED
    BY <2>1, <2>2, <2>3
<1> QED
  BY <1>8, <1>9, <1>10, <1>11, <1>12 DEF H!Next, H!ListStep

\* Two pages of comments that were only added and are as many are the same.
LEMMA GithubGrowth ==
  ASSUME RoomAssumption, GithubInv PROVE H!GrowthIsNeverHidden
<1> DEFINE n == Len(posted)
           page == Page(rows, OldestOf(DOMAIN rows))
<1> SUFFICES ASSUME Live, onlyInserts, Cardinality(DOMAIN page) = Cardinality(DOMAIN sawRows)
             PROVE  page = sawRows /\ (rows = sawRows \/ Cardinality(DOMAIN sawRows) = Cap)
  BY GithubIs DEF H!GrowthIsNeverHidden, H!SawAll
<1>1. n \in Nat /\ rows = Entries(1, n) /\ Cap \in Nat \ {0}
  BY DEF GithubInv, ListingInv, RoomInv, RoomAssumption
<1>2. DOMAIN rows = 1 .. n
  BY <1>1 DEF Entries
<1>3. page = First(n)
  BY <1>1, <1>2, PagesOfEntries
<1>4. PICK k \in 0 .. n : sawRows = First(k)
  BY DEF GithubInv
<1>5. /\ Cardinality(DOMAIN First(n)) = Fewer(n, Cap) /\ Cardinality(DOMAIN First(k)) = Fewer(k, Cap)
      /\ n <= Cap => First(n) = Entries(1, n)
  BY <1>1, <1>4, PagesOfEntries
<1>6. Fewer(n, Cap) = Fewer(k, Cap)
  BY <1>3, <1>4, <1>5
<1>7. First(n) = First(k)
  BY <1>6 DEF First, Fewer
<1>8. CASE n <= Cap
  BY <1>1, <1>3, <1>4, <1>5, <1>7, <1>8
<1>9. CASE n > Cap
  <2>1. Fewer(n, Cap) = Cap
    BY <1>1, <1>9 DEF Fewer
  <2> QED
    BY <1>3, <1>4, <1>5, <1>6, <1>7, <2>1
<1> QED
  BY <1>1, <1>8, <1>9

-----------------------------------------------------------------------------
(* The mailing list *)

LEMMA MaillistIs ==
  /\ \A s : M!ToSet(s) = ToSet(s)
  /\ M!Live <=> Live
  /\ \A A : M!Sorted(A) = InOrder(A)
  /\ \A t : M!Count(t) = Cardinality(DOMAIN t)
  /\ M!NewestPage(rows) = Page(rows, NewestOf(DOMAIN rows))
<1>1. \A s : M!ToSet(s) = ToSet(s)
  BY DEF M!ToSet, ToSet
<1>2. M!Live <=> Live
  BY DEF M!Live, Live
<1>3. \A A : M!Cardinality(A) = Cardinality(A)
  BY DEF M!Cardinality, Cardinality, M!IsFiniteSet, IsFiniteSet
<1>4. \A A : M!Sorted(A) = InOrder(A)
  BY <1>3 DEF M!Sorted, InOrder
<1>5. \A t : M!Count(t) = Cardinality(DOMAIN t)
  BY <1>3 DEF M!Count
<1>6. M!NewestPage(rows) = Page(rows, NewestOf(DOMAIN rows))
  BY <1>3 DEF M!NewestPage, M!Restricted, Page, NewestOf, Above
<1> QED
  BY <1>1, <1>2, <1>4, <1>5, <1>6

LEMMA MaillistStarts ==
  ASSUME RoomAssumption, Init, connector # "sqlite_chat" PROVE MaillistInv
<1>1. ListingInv /\ Len(posted) = 0 /\ sawRows = Entries(1, 0) /\ task = "connecting"
  BY ListingStarts
<1>2. Latest(0) = Entries(1, 0)
  BY PagesOfEntries DEF RoomAssumption
<1>3. /\ sending = "idle" /\ drafts = 0 /\ running = 0 /\ taken = 0 /\ listed = 0 /\ failures = 0
  BY DEF Init, M!MailInit
<1> QED
  BY <1>1, <1>2, <1>3 DEF MaillistInv, SendsInv, M!SendStates

\* What is seen stays what the listing had after some post.
LEMMA MaillistLooks ==
  ASSUME RoomAssumption, ListingInv, onlyInserts => \E k \in 0 .. Len(posted) : sawRows = Latest(k),
         Adds \/ Touches \/ LooksAway \/ ShowsPage(NewestOf(DOMAIN rows))
  PROVE  ListingInv' /\ (onlyInserts' => \E k \in 0 .. Len(posted') : sawRows' = Latest(k))
<1> DEFINE n == Len(posted)
<1>1. /\ rows \in Tables(n) /\ posted \in Seq(Kinds) /\ n \in Nat /\ MaxPosted \in Nat
  BY DEF ListingInv, RoomInv, RoomAssumption
<1>2. onlyInserts => \E k \in 0 .. n : sawRows = Latest(k)
  OBVIOUS
<1>3. CASE Adds
  <2>1. ListingInv' /\ Len(posted') = n + 1 /\ UNCHANGED <<sawRows, onlyInserts>>
    BY <1>1, <1>3, ListingAdds
  <2>2. 0 .. n \subseteq 0 .. n + 1
    BY <1>1
  <2> QED
    BY <1>2, <2>1, <2>2
<1>4. CASE Touches
  BY <1>1, <1>4, ListingTouched
<1>5. CASE LooksAway
  BY <1>1, <1>2, <1>5, ListingLooksAway
<1>6. CASE ShowsPage(NewestOf(DOMAIN rows))
  <2>1. DOMAIN rows \in SUBSET (1 .. MaxPosted)
    BY <1>1, TableIs
  <2>2. /\ NewestOf(DOMAIN rows) \in SUBSET DOMAIN rows /\ IsFiniteSet(NewestOf(DOMAIN rows))
        /\ Cardinality(NewestOf(DOMAIN rows)) <= Cap
    BY <2>1, PagesAreShort
  <2>3. /\ ListingInv' /\ UNCHANGED <<posted, rows, onlyInserts>>
        /\ sawRows' = Page(rows, NewestOf(DOMAIN rows))
    BY <1>1, <1>6, <2>2, ListingShown
  <2>4. onlyInserts => sawRows' = Latest(n)
    <3>1. onlyInserts => rows = Entries(1, n) /\ DOMAIN rows = 1 .. n
      BY <1>1 DEF ListingInv, Entries
    <3> QED
      BY <1>1, <2>3, <3>1, PagesOfEntries
  <2>5. n \in 0 .. n
    BY <1>1
  <2> QED
    BY <2>3, <2>4, <2>5
<1> QED
  BY <1>3, <1>4, <1>5, <1>6

LEMMA MaillistSteps ==
  ASSUME RoomAssumption, MaillistInv, M!Next PROVE MaillistInv'
<1> DEFINE n == Len(posted)
<1>1. /\ ListingInv /\ rows \in Tables(n) /\ posted \in Seq(Kinds) /\ n \in Nat
      /\ task \in TaskStates /\ queued \in Nat
      /\ poll \in {"sleeping", "reading"} /\ (task = "sending" => poll = "sleeping")
      /\ onlyInserts => \E k \in 0 .. Len(posted) : sawRows = Latest(k)
  BY DEF MaillistInv, ListingInv, RoomInv
<1>2. /\ sending \in M!SendStates
      /\ drafts \in Nat /\ running \in Nat /\ taken \in Nat /\ listed \in Nat /\ failures \in Nat
      /\ task = "sending" <=> sending # "idle"
      /\ drafts + running + listed + (IF sending = "posting" THEN 1 ELSE 0) <= taken
      /\ sending \in {"created", "starting"} => drafts >= 1
      /\ drafts <= failures + (IF sending \in {"created", "starting"} THEN 1 ELSE 0)
  BY DEF MaillistInv, SendsInv
<1>3. ASSUME Adds \/ Touches \/ LooksAway \/ ShowsPage(NewestOf(DOMAIN rows)), SendsInv'
      PROVE  MaillistInv'
  BY <1>1, <1>3, MaillistLooks DEF MaillistInv
<1>4. ASSUME UNCHANGED M!campaignVars, task' = "sending" <=> task = "sending" PROVE SendsInv'
  BY <1>2, <1>4 DEF SendsInv, M!campaignVars
<1>5. CASE M!Add /\ UNCHANGED M!campaignVars
  <2>1. Adds /\ task' = task
    BY <1>5 DEF M!Add, M!Post, M!taskVars, Adds
  <2> QED
    BY <1>3, <1>4, <1>5, <2>1
<1>6. ASSUME NEW i \in 1 .. MaxPosted, M!Withdraw(i) \/ M!Edit(i), UNCHANGED M!campaignVars
      PROVE  MaillistInv'
  <2>1. /\ n < MaxPosted /\ posted' = Append(posted, "other") /\ onlyInserts' = FALSE
        /\ UNCHANGED <<task, queued, window, shown, poll, sawRows>>
        /\ \/ rows' = [j \in DOMAIN rows \ {i} |-> rows[j]]
           \/ rows' = [rows EXCEPT ![i] = n + 1]
    BY <1>6 DEF M!Withdraw, M!Edit, M!Post, M!taskVars, M!Restricted
  <2>2. rows' \in Tables(n + 1)
    BY <1>1, <2>1, ChangedIs
  <2>3. Touches
    BY <2>1, <2>2 DEF Touches
  <2> QED
    BY <1>3, <1>4, <1>6, <2>1, <2>3
<1>7. CASE /\ M!Wake \/ ((M!SubmitIntent \/ M!TaskEnds) /\ UNCHANGED M!listVars)
           /\ UNCHANGED M!campaignVars
  <2>1. LooksAway
    BY <1>1, <1>7, MaillistIs
       DEF M!Wake, M!SubmitIntent, M!TaskEnds, M!taskVars, M!feedVars, M!listVars, LooksAway, TaskStates, Live
  <2>2. task' = "sending" <=> task = "sending"
    BY <1>7 DEF M!Wake, M!SubmitIntent, M!TaskEnds, M!taskVars
  <2> QED
    BY <1>3, <1>4, <1>7, <2>1, <2>2
<1>8. CASE M!Connect
  <2>1. DOMAIN Page(rows, NewestOf(DOMAIN rows)) = NewestOf(DOMAIN rows)
    BY DEF Page
  <2>2. ShowsPage(NewestOf(DOMAIN rows)) /\ UNCHANGED M!campaignVars /\ task = "connecting"
    BY <1>1, <1>8, <2>1, MaillistIs DEF M!Connect, M!ListConnected, M!ShowPage, M!Show, ShowsPage
  <2>3. SendsInv'
    BY <1>4, <2>2 DEF ShowsPage
  <2> QED
    BY <1>3, <2>2, <2>3
<1>9. CASE M!Fetch
  <2> DEFINE page == M!NewestPage(rows)
  <2>1. /\ task = "receiving" /\ poll' = "sleeping"
        /\ M!ShowPage(page) \/ UNCHANGED <<window, shown, sawRows>>
        /\ UNCHANGED <<task, queued, posted, rows, onlyInserts>>
        /\ UNCHANGED M!campaignVars
    BY <1>9 DEF M!Fetch, M!Fetched, M!taskVars
  <2>2. SendsInv'
    BY <1>4, <2>1
  <2>3. CASE M!ShowPage(page)
    <3>1. DOMAIN Page(rows, NewestOf(DOMAIN rows)) = NewestOf(DOMAIN rows)
      BY DEF Page
    <3>2. ShowsPage(NewestOf(DOMAIN rows))
      BY <2>1, <2>3, <3>1, MaillistIs DEF M!ShowPage, M!Show, ShowsPage
    <3> QED
      BY <1>3, <2>2, <3>2
  <2>4. CASE UNCHANGED <<window, shown, sawRows>>
    <3>1. LooksAway
      BY <1>1, <2>1, <2>4 DEF LooksAway, TaskStates
    <3> QED
      BY <1>3, <2>2, <3>1
  <2> QED
    BY <2>1, <2>3, <2>4
<1>10. CASE M!MailTake
  <2>1. LooksAway
    BY <1>1, <1>10 DEF M!MailTake, M!Cancel, M!TakeIntent, M!feedVars, LooksAway, TaskStates
  <2>2. task = "receiving" /\ task' \in {"sending", "receiving"} /\ UNCHANGED <<drafts, running, listed, failures>>
    BY <1>10 DEF M!MailTake, M!Cancel, M!TakeIntent
  <2>3. SendsInv'
    <3>1. CASE task' = "sending"
      <4>1. sending' = "posting" /\ taken' = taken + 1
        BY <1>10, <3>1 DEF M!MailTake
      <4> QED
        BY <1>2, <2>2, <3>1, <4>1 DEF SendsInv, M!SendStates
    <3>2. CASE task' = "receiving"
      <4>1. UNCHANGED <<sending, taken>>
        BY <1>10, <3>2 DEF M!MailTake
      <4> QED
        BY <1>2, <2>2, <3>2, <4>1 DEF SendsInv, M!SendStates
    <3> QED
      BY <2>2, <3>1, <3>2
  <2> QED
    BY <1>3, <2>1, <2>3
<1>11. CASE M!CreateArrives \/ M!CreateAnswered \/ M!StartArrives
  <2>1. LooksAway
    BY <1>1, <1>11
       DEF M!CreateArrives, M!CreateAnswered, M!StartArrives, M!Proceeds, M!taskVars, M!feedVars, M!listVars,
           LooksAway
  <2>2. SendsInv'
    <3>1. CASE M!CreateArrives
      BY <1>2, <3>1 DEF M!CreateArrives, M!Proceeds, M!taskVars, SendsInv, M!SendStates
    <3>2. CASE M!CreateAnswered
      BY <1>2, <3>2 DEF M!CreateAnswered, M!Proceeds, M!taskVars, SendsInv, M!SendStates
    <3>3. CASE M!StartArrives
      BY <1>2, <3>3 DEF M!StartArrives, M!Proceeds, M!taskVars, SendsInv, M!SendStates
    <3> QED
      BY <1>11, <3>1, <3>2, <3>3
  <2> QED
    BY <1>3, <2>1, <2>2
<1>12. CASE M!MailSent
  <2>1. LooksAway
    BY <1>1, <1>12 DEF M!MailSent, M!SendReturns, M!feedVars, M!listVars, LooksAway, TaskStates
  <2>2. SendsInv'
    <3>1. /\ task' = "receiving" /\ sending' = "idle" /\ UNCHANGED <<drafts, running, taken, listed>>
          /\ failures' \in IF sending = "started" THEN {failures, failures + 1} ELSE {failures + 1}
      BY <1>12 DEF M!MailSent, M!SendReturns
    <3>2. failures' \in Nat /\ (sending # "started" => failures' = failures + 1) /\ failures <= failures'
      <4>1. failures' = failures \/ failures' = failures + 1
        BY <3>1
      <4> QED
        BY <1>2, <3>1, <4>1
    <3>3. drafts <= failures'
      <4>1. CASE sending = "started"
        <5>1. drafts <= failures
          BY <1>2, <4>1
        <5> QED
          BY <1>2, <3>2, <5>1
      <4>2. CASE sending # "started"
        BY <1>2, <3>2, <4>2
      <4> QED
        BY <4>1, <4>2
    <3>4. drafts + running + listed <= taken
      BY <1>2
    <3>5. "idle" \in M!SendStates
      BY DEF M!SendStates
    <3> QED
      <4>1. drafts' + running' + listed' + (IF sending' = "posting" THEN 1 ELSE 0) <= taken'
        BY <1>2, <3>1, <3>4
      <4>2. drafts' <= failures' + (IF sending' \in {"created", "starting"} THEN 1 ELSE 0)
        <5>1. drafts' = drafts /\ drafts \in Nat /\ sending' = "idle"
          BY <1>2, <3>1
        <5>2. drafts' \in Nat /\ failures' \in Nat /\ drafts' <= failures'
          BY <3>2, <3>3, <5>1
        <5>3. \A a, b \in Nat : a <= b => a <= b + (IF sending' \in {"created", "starting"} THEN 1 ELSE 0)
          OBVIOUS
        <5> QED
          BY <5>2, <5>3
      <4>3. /\ sending' \in M!SendStates
            /\ drafts' \in Nat /\ running' \in Nat /\ taken' \in Nat /\ listed' \in Nat /\ failures' \in Nat
            /\ task' = "sending" <=> sending' # "idle"
            /\ sending' \in {"created", "starting"} => drafts' >= 1
        BY <1>2, <3>1, <3>2, <3>5
      <4> QED
        BY <4>1, <4>2, <4>3 DEF SendsInv
  <2> QED
    BY <1>3, <2>1, <2>2
<1>13. CASE M!CampaignSent
  <2>1. Adds
    BY <1>13 DEF M!CampaignSent, M!Add, M!Post, M!taskVars, Adds
  <2>2. SendsInv'
    BY <1>2, <1>13, <2>1 DEF M!CampaignSent, Adds, SendsInv
  <2> QED
    BY <1>3, <2>1, <2>2
<1> QED
  BY <1>5, <1>6, <1>7, <1>8, <1>9, <1>10, <1>11, <1>12, <1>13 DEF M!Next

\* A page of campaigns that were only added and are no more is the same.
LEMMA MaillistGrowth ==
  ASSUME RoomAssumption, MaillistInv PROVE M!GrowthIsNeverHidden
<1> DEFINE n == Len(posted)
           page == Page(rows, NewestOf(DOMAIN rows))
<1> SUFFICES ASSUME Live, onlyInserts, Cardinality(DOMAIN page) <= Cardinality(DOMAIN sawRows)
             PROVE  rows = sawRows \/ Cardinality(DOMAIN sawRows) = Cap
  BY MaillistIs DEF M!GrowthIsNeverHidden, M!SawAll
<1>1. n \in Nat /\ rows = Entries(1, n) /\ Cap \in Nat \ {0}
  BY DEF MaillistInv, ListingInv, RoomInv, RoomAssumption
<1>2. DOMAIN rows = 1 .. n
  BY <1>1 DEF Entries
<1>3. page = Latest(n)
  BY <1>1, <1>2, PagesOfEntries
<1>4. PICK k \in 0 .. n : sawRows = Latest(k)
  BY DEF MaillistInv
<1>5. /\ Cardinality(DOMAIN Latest(n)) = Fewer(n, Cap) /\ Cardinality(DOMAIN Latest(k)) = Fewer(k, Cap)
      /\ n <= Cap => Latest(n) = Entries(1, n)
  BY <1>1, <1>4, PagesOfEntries
<1>6. Fewer(n, Cap) <= Fewer(k, Cap)
  BY <1>3, <1>4, <1>5
<1>7. CASE k < Cap
  <2>1. n = k /\ n <= Cap
    BY <1>1, <1>6, <1>7 DEF Fewer
  <2> QED
    BY <1>1, <1>4, <1>5, <2>1
<1>8. CASE k >= Cap
  <2>1. Fewer(k, Cap) = Cap
    BY <1>1, <1>8 DEF Fewer
  <2> QED
    BY <1>4, <1>5, <2>1
<1> QED
  BY <1>1, <1>7, <1>8

-----------------------------------------------------------------------------
(* Waiting for the answer: what the steps of Telegram, Zulip and Matrix do *)

\* Something is posted.
IsPosted(kind) ==
  /\ Len(posted) < MaxPosted /\ posted' = Append(posted, kind)
  /\ UNCHANGED <<task, queued, window, shown, position, polling, forgotten, restarts>>

\* Nothing is posted, shown or handled; the server may be told what it may forget.
Waits ==
  /\ UNCHANGED <<posted, window, shown, position, restarts>>
  /\ task' \in TaskStates /\ queued' \in Nat
  /\ polling' \in BOOLEAN /\ (polling' => task' = "receiving")
  /\ Live' => Live
  /\ task' = "connecting" => task = "connecting"
  /\ task = "connecting" => task' \in {"connecting", "ended"}
  /\ forgotten' = forgotten \/ (Live /\ forgotten <= position /\ forgotten' = position)

\* connect() returns with window w, to go on after p.
ConnectsWith(w, p) ==
  /\ task = "connecting" /\ task' = "receiving"
  /\ window' = w /\ shown' = shown \cup ToSet(w) /\ position' = p
  /\ UNCHANGED <<queued, posted, polling, forgotten, restarts>>

\* An answer has the updates up to k and the messages ns.
IsAnswered(k, ns) ==
  /\ task = "receiving" /\ polling /\ polling' = FALSE
  /\ position' = k
  /\ \/ ns = <<>> /\ UNCHANGED <<window, shown>>
     \/ window' = LastOnes(window \o ns, Cap) /\ shown' = shown \cup ToSet(window')
  /\ UNCHANGED <<task, queued, posted, forgotten, restarts>>

StartsAnew ==
  /\ restarts' = restarts + 1
  /\ task' = "connecting" /\ queued' = 0 /\ window' = <<>> /\ position' = 0 /\ polling' = FALSE
  /\ UNCHANGED <<posted, shown, forgotten>>

LEMMA WaitStarts ==
  ASSUME RoomAssumption, Init
  PROVE  /\ WaitInv /\ posted = <<>> /\ Len(posted) = 0 /\ window = <<>> /\ shown = {}
         /\ task = "connecting" /\ position = 0 /\ forgotten = 0 /\ restarts = 0
<1>1. /\ posted = <<>> /\ window = <<>> /\ shown = {} /\ task = "connecting" /\ queued = 0
      /\ position = 0 /\ polling = FALSE /\ forgotten = 0 /\ restarts = 0
  BY DEF Init, T!Init, T!PollInit, T!RoomInit
<1>2. RoomInv /\ Len(posted) = 0
  BY <1>1, StartsEmpty
<1>3. 0 \in 0 .. Len(posted) /\ 0 \in Nat
  BY <1>2
<1> QED
  BY <1>1, <1>2, <1>3 DEF WaitInv

LEMMA WaitPosted ==
  ASSUME RoomAssumption, WaitInv, NEW kind \in Kinds, IsPosted(kind)
  PROVE  /\ WaitInv' /\ Len(posted') = Len(posted) + 1
         /\ Plain(posted') \subseteq Plain(posted) \cup {Len(posted) + 1} /\ Plain(posted) \subseteq Plain(posted')
<1>1. /\ posted \in Seq(Kinds) /\ Len(posted) \in Nat /\ MaxPosted \in Nat
      /\ position \in 0 .. Len(posted) /\ forgotten \in 0 .. Len(posted)
  BY DEF WaitInv, RoomInv, RoomAssumption
<1>2. /\ posted' \in Seq(Kinds) /\ Len(posted') = Len(posted) + 1 /\ Len(posted') <= MaxPosted
      /\ Plain(posted') \subseteq Plain(posted) \cup {Len(posted) + 1} /\ Plain(posted) \subseteq Plain(posted')
  BY <1>1, PlainPosted DEF IsPosted
<1>3. RoomInv'
  BY <1>2 DEF WaitInv, RoomInv, IsPosted
<1>4. position' \in 0 .. Len(posted') /\ forgotten' \in 0 .. Len(posted')
  BY <1>1, <1>2 DEF IsPosted
<1> QED
  BY <1>2, <1>3, <1>4 DEF WaitInv, IsPosted

LEMMA WaitWaits ==
  ASSUME RoomAssumption, WaitInv, Waits PROVE WaitInv'
<1>1. RoomInv'
  BY DEF WaitInv, RoomInv, Waits
<1> QED
  BY <1>1 DEF WaitInv, Waits

LEMMA WaitConnects ==
  ASSUME RoomAssumption, WaitInv, NEW w \in Seq(Nat), Len(w) <= Cap, NEW p \in 0 .. Len(posted), ConnectsWith(w, p)
  PROVE  WaitInv'
<1>1. ToSet(w) \subseteq Nat
  BY ToSetIs
<1>2. shown' \in SUBSET Nat /\ window' \in Seq(Nat) /\ Len(window') <= Cap
  BY <1>1 DEF WaitInv, RoomInv, ConnectsWith
<1>3. RoomInv'
  BY <1>2 DEF WaitInv, RoomInv, ConnectsWith, TaskStates
<1> QED
  BY <1>3 DEF WaitInv, ConnectsWith

LEMMA WaitAnswered ==
  ASSUME RoomAssumption, WaitInv, NEW k \in 0 .. Len(posted), NEW ns \in Seq(Nat), IsAnswered(k, ns)
  PROVE  /\ WaitInv'
         /\ shown \subseteq shown' /\ ToSet(ns) \subseteq shown' \cup ToSet(OlderOnes(ns, Cap))
         /\ \A i \in 1 .. Len(window') : \/ \E j \in 1 .. Len(window) : window'[i] = window[j]
                                         \/ \E j \in 1 .. Len(ns) : window'[i] = ns[j]
<1>1. window \in Seq(Nat) /\ Len(window) <= Cap /\ Cap \in Nat /\ shown \in SUBSET Nat
  BY DEF WaitInv, RoomInv, RoomAssumption
<1>2. CASE ns = <<>> /\ UNCHANGED <<window, shown>>
  <2>1. ToSet(ns) = {}
    BY <1>2 DEF ToSet
  <2>2. RoomInv'
    BY <1>2 DEF WaitInv, RoomInv, IsAnswered
  <2>3. WaitInv'
    BY <2>2 DEF WaitInv, IsAnswered
  <2> QED
    BY <1>2, <2>1, <2>3
<1>3. CASE window' = LastOnes(window \o ns, Cap) /\ shown' = shown \cup ToSet(window')
  <2>1. /\ window' \in Seq(Nat) /\ Len(window') <= Cap
        /\ \A i \in 1 .. Len(window') : \/ \E j \in 1 .. Len(window) : window'[i] = window[j]
                                        \/ \E j \in 1 .. Len(ns) : window'[i] = ns[j]
        /\ ToSet(ns) \subseteq ToSet(window') \cup ToSet(OlderOnes(ns, Cap))
    <3> DEFINE r == LastOnes(window \o ns, Cap)
    <3>1. /\ r \in Seq(Nat) /\ Len(r) <= Cap
          /\ \A i \in 1 .. Len(r) : \/ \E j \in 1 .. Len(window) : r[i] = window[j]
                                    \/ \E j \in 1 .. Len(ns) : r[i] = ns[j]
          /\ ToSet(ns) \subseteq ToSet(r) \cup ToSet(OlderOnes(ns, Cap))
      BY <1>1, PushedAllAre
    <3> HIDE DEF r
    <3>2. window' = r
      BY <1>3 DEF r
    <3> QED
      BY <3>1, <3>2
  <2>2. ToSet(window') \subseteq Nat
    BY <2>1, ToSetIs
  <2>3. shown' \in SUBSET Nat
    BY <1>1, <1>3, <2>2
  <2>4. RoomInv'
    BY <2>1, <2>3 DEF WaitInv, RoomInv, IsAnswered
  <2>5. WaitInv'
    BY <2>4 DEF WaitInv, IsAnswered
  <2>6. shown \subseteq shown' /\ ToSet(ns) \subseteq shown' \cup ToSet(OlderOnes(ns, Cap))
    BY <1>3, <2>1
  <2> QED
    BY <2>1, <2>5, <2>6
<1> QED
  BY <1>2, <1>3 DEF IsAnswered

\* What is shown after an answer is in order if what it has comes after the window, or is in L.
LEMMA WindowAnswered ==
  ASSUME RoomAssumption, WaitInv, NEW k \in 0 .. Len(posted), NEW ns \in Seq(Nat), IsAnswered(k, ns),
         NEW L, RisesBut(window, L), Rises(ns),
         \A j \in 1 .. Len(ns) : ns[j] \in L \/ \A i \in 1 .. Len(window) : window[i] < ns[j]
  PROVE  RisesBut(window', L)
<1>1. window \in Seq(Nat) /\ Cap \in Nat
  BY DEF WaitInv, RoomInv, RoomAssumption
<1>2. CASE UNCHANGED window
  BY <1>2 DEF RisesBut
<1>3. CASE window' = LastOnes(window \o ns, Cap)
  <2>1. RisesBut(LastOnes(window \o ns, Cap), L)
    BY <1>1, PushAllKeepsOrderBut
  <2> QED
    BY <1>3, <2>1
<1> QED
  BY <1>2, <1>3 DEF IsAnswered

LEMMA WaitStartsAnew ==
  ASSUME RoomAssumption, WaitInv, StartsAnew PROVE WaitInv'
<1>1. <<>> \in Seq(Nat) /\ Len(<<>>) = 0 /\ Cap \in Nat
  BY DEF RoomAssumption
<1>2. RoomInv'
  BY <1>1 DEF WaitInv, RoomInv, StartsAnew, TaskStates
<1>3. position' \in 0 .. Len(posted')
  BY DEF WaitInv, RoomInv, StartsAnew
<1>4. restarts' \in Nat
  BY DEF WaitInv, StartsAnew
<1> QED
  BY <1>2, <1>3, <1>4 DEF WaitInv, StartsAnew

\* The messages numbered m .. n, in order.
LEMMA BatchIs ==
  ASSUME NEW p \in Seq(Kinds), NEW m \in Nat, NEW n \in Nat
  PROVE  LET s == InOrder(Plain(p) \cap m .. n) IN
         /\ s \in Seq(Nat) /\ Rises(s) /\ ToSet(s) = Plain(p) \cap m .. n
         /\ \A i \in 1 .. Len(s) : s[i] \in Plain(p) /\ m <= s[i] /\ s[i] <= n
         /\ Len(s) <= (IF m <= n THEN n + 1 - m ELSE 0)
<1> DEFINE A == Plain(p) \cap m .. n
           s == InOrder(A)
<1>1. Len(p) \in Nat /\ A \in SUBSET (1 .. Len(p))
  BY PlainIs
<1>2. s \in Seq(A) /\ Len(s) = Cardinality(A) /\ Rises(s) /\ ToSet(s) = A
  BY <1>1, InOrderIs
<1>3. A \subseteq Nat /\ A \subseteq m .. n
  BY <1>1
<1>4. Cardinality(A) <= (IF m <= n THEN n + 1 - m ELSE 0)
  <2>1. IsFiniteSet(m .. n) /\ Cardinality(m .. n) = (IF m > n THEN 0 ELSE n - m + 1)
    BY FS_Interval
  <2>2. Cardinality(A) <= Cardinality(m .. n)
    BY <1>3, <2>1, FS_Subset
  <2>3. (IF m > n THEN 0 ELSE n - m + 1) = (IF m <= n THEN n + 1 - m ELSE 0)
    OBVIOUS
  <2> QED
    BY <2>1, <2>2, <2>3
<1> HIDE DEF s
<1>5. s \in Seq(Nat)
  BY <1>2, <1>3, SeqWider
<1>6. \A i \in 1 .. Len(s) : s[i] \in A
  BY <1>2
<1>7. \A x \in A : x \in Plain(p) /\ m <= x /\ x <= n
  OBVIOUS
<1> HIDE DEF A
<1>8. \A i \in 1 .. Len(s) : s[i] \in Plain(p) /\ m <= s[i] /\ s[i] <= n
  BY <1>6, <1>7
<1> QED
  BY <1>2, <1>4, <1>5, <1>8 DEF s, A

-----------------------------------------------------------------------------
(* Matrix *)

LEMMA MatrixIs ==
  /\ \A s : X!ToSet(s) = ToSet(s)
  /\ X!Live <=> Live
  /\ X!Messages = Plain(posted)
  /\ \A m, n : X!PlainFrom(m, n) = InOrder(Plain(posted) \cap m .. n)
  /\ \A w, ns : X!PushAll(w, ns) = LastOnes(w \o ns, Cap)
  /\ \A a, b : X!Higher(a, b) = (IF a > b THEN a ELSE b) /\ X!Lower(a, b) = (IF a < b THEN a ELSE b)
  /\ X!NoTxn = MaxTxns
<1>1. \A s : X!ToSet(s) = ToSet(s)
  BY DEF X!ToSet, ToSet
<1>2. X!Live <=> Live
  BY DEF X!Live, Live
<1>3. X!Messages = Plain(posted)
  BY DEF X!Messages, Plain
<1>4. \A A : X!Cardinality(A) = Cardinality(A)
  BY DEF X!Cardinality, Cardinality, X!IsFiniteSet, IsFiniteSet
<1>5. \A m, n : X!PlainFrom(m, n) = InOrder(Plain(posted) \cap m .. n)
  BY <1>3, <1>4 DEF X!PlainFrom, X!Sorted, InOrder
<1>6. \A w, ns : X!PushAll(w, ns) = LastOnes(w \o ns, Cap)
  BY DEF X!PushAll, X!Newest, X!Lower, LastOnes
<1>7. \A a, b : X!Higher(a, b) = (IF a > b THEN a ELSE b) /\ X!Lower(a, b) = (IF a < b THEN a ELSE b)
  BY DEF X!Higher, X!Lower
<1> QED
  BY <1>1, <1>2, <1>3, <1>5, <1>6, <1>7 DEF X!NoTxn

MatrixFeed ==
  /\ Live => Plain(posted) \cap 1 .. position \subseteq Older(connectedAt) \cup shown \cup unseen
  /\ Rises(window) /\ UpTo(window, position)

MatrixSends ==
  /\ txnCounter \in 0 .. MaxTxns /\ inFlight \in 0 .. MaxTxns
  /\ usedTxns \in SUBSET Nat /\ swallowed \in Nat
  /\ inFlight # MaxTxns => task = "sending"
  /\ restarts = 0 => TxnsAreFresh

LEMMA MatrixStarts ==
  ASSUME RoomAssumption, PollsAssumption, Init, connector = "matrix" PROVE MatrixInv
<1>1. /\ WaitInv /\ Len(posted) = 0 /\ window = <<>> /\ task = "connecting"
  BY WaitStarts
<1>2. /\ connectedAt = 0 /\ unseen = {} /\ txnCounter = 0 /\ inFlight = MaxTxns /\ usedTxns = {} /\ swallowed = 0
  BY MatrixIs DEF Init, X!Init
<1>3. MaxTxns \in Nat
  BY DEF PollsAssumption
<1>4. ~ Live /\ Rises(window) /\ UpTo(window, position)
  BY <1>1 DEF Live, Rises, UpTo
<1>5. TxnsAreFresh
  BY <1>1, <1>2 DEF TxnsAreFresh
<1> QED
  BY <1>1, <1>2, <1>3, <1>4, <1>5 DEF MatrixInv

LEMMA MatrixFeedPosted ==
  ASSUME RoomAssumption, WaitInv, MatrixFeed, NEW kind \in Kinds, IsPosted(kind), UNCHANGED <<connectedAt, unseen>>
  PROVE  MatrixFeed'
<1>1. /\ Plain(posted') \subseteq Plain(posted) \cup {Len(posted) + 1}
      /\ position \in 0 .. Len(posted) /\ Len(posted) \in Nat
  BY WaitPosted DEF WaitInv, RoomInv
<1>2. Len(posted) + 1 \notin 1 .. position
  BY <1>1
<1>3. Plain(posted') \cap 1 .. position \subseteq Plain(posted) \cap 1 .. position
  BY <1>1, <1>2
<1>4. Live' <=> Live
  BY DEF Live, IsPosted
<1> QED
  BY <1>3, <1>4 DEF MatrixFeed, IsPosted, Rises, UpTo

LEMMA MatrixFeedWaits ==
  ASSUME MatrixFeed, Waits, UNCHANGED <<connectedAt, unseen>>
  PROVE  MatrixFeed'
BY DEF MatrixFeed, Waits, Rises, UpTo

LEMMA MatrixFeedStartsAnew ==
  ASSUME MatrixFeed, StartsAnew
  PROVE  MatrixFeed'
BY DEF MatrixFeed, StartsAnew, Live, Rises, UpTo

LEMMA MatrixFeedConnects ==
  ASSUME RoomAssumption, WaitInv, MatrixFeed, X!Connect
  PROVE  WaitInv' /\ MatrixFeed'
<1> DEFINE n == Len(posted)
           m == IF HistoryLimit < n THEN HistoryLimit ELSE n
           first == n + 1 - m
           w == InOrder(Plain(posted) \cap first .. n)
<1>1. ConnectsWith(w, n) /\ connectedAt' = n /\ UNCHANGED unseen
  BY MatrixIs DEF X!Connect, X!Connected, X!Show, ConnectsWith
<1>2. posted \in Seq(Kinds) /\ n \in Nat /\ Cap \in Nat /\ HistoryLimit \in Nat /\ HistoryLimit <= Cap
  BY DEF WaitInv, RoomInv, RoomAssumption
<1>3. m \in 0 .. n /\ m <= Cap /\ first \in Nat /\ first = n + 1 - m
  BY <1>2
<1>6. n \in 0 .. Len(posted)
  BY <1>2
<1>8. Older(n) = 1 .. n - m
  BY DEF Older
<1> HIDE DEF n, m, first
<1>4. /\ w \in Seq(Nat) /\ Rises(w) /\ ToSet(w) = Plain(posted) \cap first .. n
      /\ \A i \in 1 .. Len(w) : w[i] \in Plain(posted) /\ first <= w[i] /\ w[i] <= n
      /\ Len(w) <= (IF first <= n THEN n + 1 - first ELSE 0)
  <2>1. posted \in Seq(Kinds) /\ first \in Nat /\ n \in Nat
    BY <1>2, <1>3
  <2> QED
    BY <2>1, BatchIs
<1> HIDE DEF w
<1>5. Len(w) <= Cap
  <2>1. (IF first <= n THEN n + 1 - first ELSE 0) = m
    BY <1>2, <1>3
  <2>2. Len(w) \in Nat
    BY <1>4
  <2> QED
    BY <1>2, <1>3, <1>4, <2>1, <2>2
<1>7. WaitInv'
  BY <1>1, <1>4, <1>5, <1>6, WaitConnects
<1>9. 1 .. n \subseteq 1 .. n - m \cup first .. n
  BY <1>2, <1>3
<1>10. Plain(posted) \cap 1 .. n \subseteq Older(n) \cup shown'
  <2>1. shown' = shown \cup (Plain(posted) \cap first .. n)
    BY <1>1, <1>4 DEF ConnectsWith
  <2> QED
    BY <1>8, <1>9, <2>1
<1>11. Rises(window') /\ UpTo(window', position')
  BY <1>1, <1>4 DEF ConnectsWith, UpTo
<1> QED
  BY <1>1, <1>7, <1>10, <1>11 DEF MatrixFeed, ConnectsWith

\* The timeline is no longer than the window: none of it is pushed out again at once.
LEMMA MatrixFeedAnswered ==
  ASSUME RoomAssumption, LongPollAssumption, WaitInv, MatrixFeed, X!Sync
  PROVE  WaitInv' /\ MatrixFeed' /\ UNCHANGED <<task, restarts, X!sendVars>>
<1>1. /\ posted \in Seq(Kinds) /\ Len(posted) \in Nat /\ position \in 0 .. Len(posted) /\ Cap \in Nat
      /\ TimelineLimit \in Nat \ {0} /\ TimelineLimit <= Cap /\ window \in Seq(Nat)
  BY DEF WaitInv, RoomInv, RoomAssumption, LongPollAssumption
<1>2. PICK k \in position + 1 .. Len(posted) :
        LET first == X!Higher(position + 1, k + 1 - X!Lower(k, TimelineLimit)) IN
        /\ X!Answer(k, X!PlainFrom(first, k))
        /\ unseen' = unseen \cup (X!Messages \cap position + 1 .. first - 1)
        /\ UNCHANGED <<connectedAt, X!sendVars>>
  BY DEF X!Sync
<1> DEFINE low == IF k < TimelineLimit THEN k ELSE TimelineLimit
           first == IF position + 1 > k + 1 - low THEN position + 1 ELSE k + 1 - low
           ns == InOrder(Plain(posted) \cap first .. k)
<1>3. /\ unseen' = unseen \cup (Plain(posted) \cap position + 1 .. first - 1) /\ UNCHANGED <<connectedAt, X!sendVars>>
  BY <1>2, MatrixIs
<1>4. IsAnswered(k, ns)
  <2>1. X!Answer(k, ns)
    BY <1>2, MatrixIs
  <2> HIDE DEF ns
  <2> QED
    BY <2>1, MatrixIs DEF X!Answer, X!Show, X!taskVars, IsAnswered
<1>5. /\ k \in Nat /\ k \in 0 .. Len(posted) /\ position \in Nat /\ low \in 0 .. k /\ low <= Cap
      /\ first \in Nat /\ position + 1 <= first /\ k + 1 - low <= first
  BY <1>1
<1> HIDE DEF low, first
<1>6. /\ ns \in Seq(Nat) /\ Rises(ns) /\ ToSet(ns) = Plain(posted) \cap first .. k
      /\ \A i \in 1 .. Len(ns) : ns[i] \in Plain(posted) /\ first <= ns[i] /\ ns[i] <= k
      /\ Len(ns) <= (IF first <= k THEN k + 1 - first ELSE 0)
  BY <1>1, <1>5, BatchIs
<1> HIDE DEF ns
<1>7. Len(ns) <= Cap /\ Len(ns) \in Nat
  <2>1. (IF first <= k THEN k + 1 - first ELSE 0) <= Cap
    BY <1>1, <1>5
  <2>2. Len(ns) \in Nat /\ (IF first <= k THEN k + 1 - first ELSE 0) \in Nat
    BY <1>5, <1>6
  <2> QED
    BY <1>1, <1>6, <2>1, <2>2
<1>8. ToSet(OlderOnes(ns, Cap)) = {}
  <2> DEFINE o == OlderOnes(ns, Cap)
  <2>1. o \in Seq(Nat) /\ Len(o) = (IF Cap < Len(ns) THEN Len(ns) - Cap ELSE 0)
    BY <1>1, <1>6, OlderOnesAre
  <2> HIDE DEF o
  <2>2. Len(o) = 0
    BY <1>1, <1>7, <2>1
  <2>3. ToSet(o) = {o[i] : i \in 1 .. Len(o)} /\ 1 .. 0 = {}
    BY <2>1, ToSetIs
  <2> QED
    BY <2>2, <2>3 DEF o
<1>9. /\ WaitInv' /\ shown \subseteq shown' /\ ToSet(ns) \subseteq shown'
      /\ \A i \in 1 .. Len(window') : \/ \E j \in 1 .. Len(window) : window'[i] = window[j]
                                      \/ \E j \in 1 .. Len(ns) : window'[i] = ns[j]
  BY <1>4, <1>5, <1>6, <1>8, WaitAnswered
<1>10. Rises(window')
  <2>1. \A s : Rises(s) <=> RisesBut(s, {})
    BY DEF Rises, RisesBut
  <2>2. ASSUME NEW j \in 1 .. Len(ns), NEW i \in 1 .. Len(window) PROVE window[i] < ns[j]
    <3>1. window[i] <= position /\ window[i] \in Nat
      BY <1>1 DEF MatrixFeed, UpTo
    <3>2. first <= ns[j] /\ ns[j] \in Nat
      BY <1>6
    <3> QED
      BY <1>5, <3>1, <3>2
  <2>3. RisesBut(window', {})
    BY <1>4, <1>5, <1>6, <2>1, <2>2, WindowAnswered DEF MatrixFeed
  <2> QED
    BY <2>1, <2>3
<1>11. UpTo(window', k)
  <2>1. \A i \in 1 .. Len(window) : window[i] <= k
    <3>1. \A i \in 1 .. Len(window) : window[i] <= position /\ window[i] \in Nat
      BY <1>1 DEF MatrixFeed, UpTo
    <3>2. position <= k
      BY <1>5
    <3> QED
      BY <1>5, <3>1, <3>2
  <2>2. \A i \in 1 .. Len(ns) : ns[i] <= k
    BY <1>6
  <2> QED
    BY <1>9, <2>1, <2>2 DEF UpTo
<1>12. Plain(posted) \cap 1 .. k \subseteq Older(connectedAt) \cup shown' \cup unseen'
  <2>1. 1 .. k \subseteq 1 .. position \cup position + 1 .. first - 1 \cup first .. k
    BY <1>5
  <2>2. Plain(posted) \cap 1 .. position \subseteq Older(connectedAt) \cup shown \cup unseen
    BY <1>4 DEF MatrixFeed, IsAnswered, Live
  <2>3. Plain(posted) \cap first .. k \subseteq shown'
    BY <1>6, <1>9
  <2> QED
    BY <1>3, <1>9, <2>1, <2>2, <2>3
<1> QED
  BY <1>3, <1>4, <1>9, <1>10, <1>11, <1>12 DEF MatrixFeed, IsAnswered

LEMMA MatrixSteps ==
  ASSUME RoomAssumption, LongPollAssumption, PollsAssumption, MatrixInv, X!Next
  PROVE  MatrixInv'
<1>1. /\ WaitInv /\ MatrixFeed /\ MatrixSends
      /\ connectedAt \in Nat /\ unseen \in SUBSET Nat /\ MaxTxns \in Nat
      /\ task \in TaskStates /\ queued \in Nat /\ polling \in BOOLEAN /\ (polling => task = "receiving")
      /\ posted \in Seq(Kinds) /\ Len(posted) \in Nat /\ position \in 0 .. Len(posted)
      /\ forgotten \in 0 .. Len(posted) /\ restarts \in Nat /\ Plain(posted) \subseteq Nat
  BY PlainIs DEF MatrixInv, MatrixFeed, MatrixSends, WaitInv, RoomInv, PollsAssumption
<1>2. ASSUME WaitInv', MatrixFeed', MatrixSends', connectedAt' \in Nat, unseen' \in SUBSET Nat
      PROVE  MatrixInv'
  BY <1>2 DEF MatrixInv, MatrixFeed, MatrixSends
<1>3. ASSUME UNCHANGED <<txnCounter, inFlight, usedTxns, swallowed, restarts>>, task' = "connecting" => task = "connecting",
             task = "sending" => task' = "sending"
      PROVE  MatrixSends'
  BY <1>1, <1>3 DEF MatrixSends, TxnsAreFresh
<1>4. ASSUME NEW kind \in Kinds, IsPosted(kind), UNCHANGED <<connectedAt, unseen>>, MatrixSends'
      PROVE  MatrixInv'
  <2>1. WaitInv' /\ MatrixFeed'
    BY <1>1, <1>4, WaitPosted, MatrixFeedPosted
  <2> QED
    BY <1>1, <1>2, <1>4, <2>1
<1>5. ASSUME Waits, UNCHANGED <<connectedAt, unseen>>, MatrixSends'
      PROVE  MatrixInv'
  <2>1. WaitInv' /\ MatrixFeed'
    BY <1>1, <1>5, WaitWaits, MatrixFeedWaits
  <2> QED
    BY <1>1, <1>2, <1>5, <2>1
<1>6. ASSUME NEW kind \in {"message", "other"}, X!Post(kind), UNCHANGED <<X!pollVars, X!matrixVars>>
      PROVE  MatrixInv'
  <2>1. IsPosted(kind) /\ UNCHANGED <<connectedAt, unseen, txnCounter, inFlight, usedTxns, swallowed>>
    BY <1>6 DEF X!Post, X!taskVars, X!pollVars, X!matrixVars, X!sendVars, IsPosted
  <2>2. MatrixSends'
    BY <1>3, <2>1 DEF IsPosted
  <2> QED
    BY <1>4, <2>1, <2>2 DEF Kinds
<1>7. CASE (X!Request \/ X!AnswerNothing \/ X!Submit \/ X!PollEnds) /\ UNCHANGED X!matrixVars
  <2>1. UNCHANGED <<connectedAt, unseen, txnCounter, inFlight, usedTxns, swallowed>>
    BY <1>7 DEF X!matrixVars, X!sendVars
  <2>2. CASE X!Request
    <3>1. forgotten' = forgotten \/ (forgotten <= position /\ forgotten' = position)
      <4>1. forgotten' = (IF forgotten > position THEN forgotten ELSE position)
        BY <2>2, MatrixIs DEF X!Request
      <4> QED
        BY <1>1, <4>1
    <3>2. Waits
      BY <1>1, <2>2, <3>1 DEF X!Request, X!taskVars, X!feedVars, Waits, Live
    <3>3. MatrixSends'
      BY <1>3, <2>1, <2>2 DEF X!Request, X!taskVars
    <3> QED
      BY <1>5, <2>1, <3>2, <3>3
  <2>3. CASE X!AnswerNothing \/ X!Submit \/ X!PollEnds
    <3>1. Waits
      <4>1. CASE X!AnswerNothing
        BY <1>1, <4>1 DEF X!AnswerNothing, X!taskVars, X!feedVars, Waits, Live
      <4>2. CASE X!Submit
        BY <1>1, <4>2 DEF X!Submit, X!SubmitIntent, X!feedVars, X!pollVars, Waits, Live
      <4>3. CASE X!PollEnds
        BY <1>1, <4>3 DEF X!PollEnds, X!TaskEnds, X!feedVars, Waits, Live, TaskStates
      <4> QED
        BY <2>3, <4>1, <4>2, <4>3
    <3>2. MatrixSends'
      BY <1>3, <2>1, <2>3 DEF X!AnswerNothing, X!Submit, X!PollEnds, X!SubmitIntent, X!TaskEnds, X!taskVars, X!pollVars
    <3> QED
      BY <1>5, <2>1, <3>1, <3>2
  <2> QED
    BY <1>7, <2>2, <2>3
<1>8. CASE X!Connect
  <2>1. WaitInv' /\ MatrixFeed'
    BY <1>1, <1>8, MatrixFeedConnects
  <2>2. /\ task = "connecting" /\ task' = "receiving" /\ txnCounter' = 0 /\ connectedAt' = Len(posted)
        /\ UNCHANGED <<restarts, unseen, inFlight, usedTxns, swallowed>>
    BY <1>8 DEF X!Connect, X!Connected
  <2>3. MatrixSends'
    BY <1>1, <2>2 DEF MatrixSends, TxnsAreFresh
  <2> QED
    BY <1>1, <1>2, <2>1, <2>2, <2>3
<1>9. CASE X!Sync
  <2>1. WaitInv' /\ MatrixFeed' /\ UNCHANGED <<task, restarts, X!sendVars>>
    BY <1>1, <1>9, MatrixFeedAnswered
  <2>2. MatrixSends'
    BY <1>3, <2>1 DEF X!sendVars
  <2>3. connectedAt' \in Nat /\ unseen' \in SUBSET Nat
    <3>1. X!Messages \subseteq Nat
      BY <1>1, MatrixIs
    <3> QED
      BY <1>1, <1>9, <3>1 DEF X!Sync
  <2> QED
    BY <1>2, <2>1, <2>2, <2>3
<1>10. CASE X!MatrixTake
  <2>1. /\ task = "receiving" /\ task' \in {"sending", "receiving"}
        /\ UNCHANGED <<connectedAt, unseen, usedTxns, swallowed, restarts>>
    BY <1>10 DEF X!MatrixTake, X!Cancel, X!TakeIntent
  <2>2. Waits
    <3>1. queued > 0 /\ queued' = queued - 1 /\ polling' = FALSE /\ UNCHANGED <<posted, window, shown, position, forgotten>>
      BY <1>10 DEF X!MatrixTake, X!Cancel, X!TakeIntent, X!feedVars
    <3>2. queued' \in Nat /\ task' \in TaskStates
      BY <1>1, <2>1, <3>1 DEF TaskStates
    <3> QED
      BY <2>1, <3>1, <3>2 DEF Waits, Live
  <2>3. CASE task' = "sending"
    <3>1. txnCounter < MaxTxns /\ inFlight' = txnCounter /\ txnCounter' = txnCounter + 1
      BY <1>10, <2>3 DEF X!MatrixTake
    <3>2. txnCounter' \in 0 .. MaxTxns /\ inFlight' \in 0 .. MaxTxns
      BY <1>1, <3>1 DEF MatrixSends
    <3>3. restarts' = 0 => TxnsAreFresh'
      <4> SUFFICES ASSUME restarts = 0 PROVE TxnsAreFresh'
        BY <2>1
      <4>1. TxnsAreFresh /\ usedTxns \in SUBSET Nat /\ txnCounter \in Nat
        BY <1>1 DEF MatrixSends
      <4>2. \A t \in usedTxns : t < txnCounter /\ t < txnCounter + 1 /\ t # txnCounter
        BY <4>1 DEF TxnsAreFresh
      <4> QED
        BY <2>1, <2>3, <3>1, <4>1, <4>2 DEF TxnsAreFresh
    <3>4. MatrixSends'
      BY <1>1, <2>1, <2>3, <3>2, <3>3 DEF MatrixSends
    <3> QED
      BY <1>5, <2>1, <2>2, <3>4
  <2>4. CASE task' = "receiving"
    <3>1. UNCHANGED <<inFlight, txnCounter>>
      BY <1>10, <2>4 DEF X!MatrixTake
    <3>2. MatrixSends'
      BY <1>3, <2>1, <2>4, <3>1
    <3> QED
      BY <1>5, <2>1, <2>2, <3>2
  <2> QED
    BY <2>1, <2>3, <2>4
<1>11. CASE X!PutArrives
  <2>1. /\ task = "sending" /\ inFlight # MaxTxns
        /\ usedTxns' = usedTxns \cup {inFlight} /\ inFlight' = MaxTxns
        /\ UNCHANGED <<task, queued, window, shown, position, polling, forgotten, restarts, connectedAt, unseen, txnCounter>>
    BY <1>11, MatrixIs DEF X!PutArrives, X!taskVars, X!pollVars
  <2>2. /\ inFlight \in usedTxns => swallowed' = swallowed + 1 /\ UNCHANGED posted
        /\ inFlight \notin usedTxns =>
             Len(posted) < MaxPosted /\ posted' = Append(posted, "message") /\ UNCHANGED swallowed
    BY <1>11 DEF X!PutArrives
  <2>3. MatrixSends'
    <3>1. /\ inFlight \in Nat /\ inFlight' \in 0 .. MaxTxns /\ txnCounter \in 0 .. MaxTxns
          /\ usedTxns \in SUBSET Nat /\ usedTxns' \in SUBSET Nat /\ swallowed' \in Nat
      BY <1>1, <2>1, <2>2 DEF MatrixSends
    <3>2. restarts' = 0 => TxnsAreFresh'
      <4> SUFFICES ASSUME restarts = 0 PROVE TxnsAreFresh'
        BY <2>1
      <4>1. TxnsAreFresh
        BY <1>1 DEF MatrixSends
      <4>2. inFlight \notin usedTxns /\ inFlight < txnCounter /\ swallowed' = 0
        BY <2>1, <2>2, <3>1, <4>1 DEF TxnsAreFresh
      <4>3. \A t \in usedTxns' : t < txnCounter'
        BY <2>1, <4>1, <4>2 DEF TxnsAreFresh
      <4> QED
        BY <2>1, <4>2, <4>3 DEF TxnsAreFresh
    <3> QED
      BY <1>1, <2>1, <3>1, <3>2 DEF MatrixSends
  <2>4. CASE inFlight \in usedTxns
    <3>1. Waits
      BY <1>1, <2>1, <2>2, <2>4 DEF Waits, Live
    <3> QED
      BY <1>5, <2>1, <2>3, <3>1
  <2>5. CASE inFlight \notin usedTxns
    <3>1. IsPosted("message")
      BY <2>1, <2>2, <2>5 DEF IsPosted
    <3> QED
      BY <1>4, <2>1, <2>3, <3>1 DEF Kinds
  <2> QED
    BY <2>4, <2>5
<1>12. CASE X!MatrixSent
  <2>1. Waits /\ UNCHANGED <<connectedAt, unseen>>
    BY <1>1, <1>12 DEF X!MatrixSent, X!SendDone, X!SendReturns, X!feedVars, X!pollVars, Waits, Live, TaskStates
  <2>2. /\ task = "sending" /\ task' = "receiving" /\ inFlight' = MaxTxns
        /\ UNCHANGED <<txnCounter, usedTxns, swallowed, restarts>>
    BY <1>12, MatrixIs DEF X!MatrixSent, X!SendDone, X!SendReturns, X!pollVars
  <2>3. MatrixSends'
    BY <1>1, <2>2 DEF MatrixSends, TxnsAreFresh
  <2> QED
    BY <1>5, <2>1, <2>3
<1>13. CASE X!MatrixRestart
  <2>1. StartsAnew /\ UNCHANGED <<connectedAt, unseen>>
    BY <1>13 DEF X!MatrixRestart, X!Restart, StartsAnew
  <2>2. WaitInv' /\ MatrixFeed'
    BY <1>1, <2>1, WaitStartsAnew, MatrixFeedStartsAnew
  <2>3. inFlight' = MaxTxns /\ restarts' # 0 /\ UNCHANGED <<txnCounter, usedTxns, swallowed>>
    BY <1>1, <1>13, MatrixIs DEF X!MatrixRestart, X!Restart
  <2>4. MatrixSends'
    BY <1>1, <2>3 DEF MatrixSends
  <2> QED
    BY <1>1, <1>2, <2>1, <2>2, <2>4
<1> QED
  BY <1>6, <1>7, <1>8, <1>9, <1>10, <1>11, <1>12, <1>13 DEF X!Next

-----------------------------------------------------------------------------
(* Zulip *)

LEMMA ZulipIs ==
  /\ \A s : Z!ToSet(s) = ToSet(s)
  /\ Z!Live <=> Live
  /\ Z!Messages = Plain(posted)
  /\ \A m, n : Z!PlainFrom(m, n) = InOrder(Plain(posted) \cap m .. n)
  /\ \A w, ns : Z!PushAll(w, ns) = LastOnes(w \o ns, Cap)
  /\ \A s, k : Z!Newest(s, k) = LastOnes(s, k) /\ Z!AllBut(s, k) = OlderOnes(s, k)
  /\ \A a, b : Z!Higher(a, b) = (IF a > b THEN a ELSE b)
  /\ Z!None = None /\ Z!TooOld = Hidden(posted, registered, fetchedAt)
<1>1. \A s : Z!ToSet(s) = ToSet(s)
  BY DEF Z!ToSet, ToSet
<1>2. Z!Live <=> Live
  BY DEF Z!Live, Live
<1>3. Z!Messages = Plain(posted)
  BY DEF Z!Messages, Plain
<1>4. \A A : Z!Cardinality(A) = Cardinality(A)
  BY DEF Z!Cardinality, Cardinality, Z!IsFiniteSet, IsFiniteSet
<1>5. \A m, n : Z!PlainFrom(m, n) = InOrder(Plain(posted) \cap m .. n)
  BY <1>3, <1>4 DEF Z!PlainFrom, Z!Sorted, InOrder
<1>6. \A w, ns : Z!PushAll(w, ns) = LastOnes(w \o ns, Cap)
  BY DEF Z!PushAll, Z!Newest, Z!Lower, LastOnes
<1>7. \A s, k : Z!Newest(s, k) = LastOnes(s, k) /\ Z!AllBut(s, k) = OlderOnes(s, k)
  BY DEF Z!Newest, Z!AllBut, Z!Lower, LastOnes, OlderOnes
<1>8. \A a, b : Z!Higher(a, b) = (IF a > b THEN a ELSE b)
  BY DEF Z!Higher
<1>9. Z!None = None /\ Z!TooOld = Hidden(posted, registered, fetchedAt)
  BY <1>3, <1>4 DEF Z!None, None, Z!TooOld, Hidden
<1> QED
  BY <1>1, <1>2, <1>3, <1>5, <1>6, <1>7, <1>8, <1>9

LEMMA ZulipStarts ==
  ASSUME RoomAssumption, Init, connector = "zulip" PROVE ZulipInv
<1>1. /\ WaitInv /\ Len(posted) = 0 /\ window = <<>> /\ task = "connecting"
  BY WaitStarts
<1>2. registered = None /\ fetchedAt = 0 /\ overwritten = {}
  BY ZulipIs DEF Init, Z!Init
<1>3. ~ Live /\ (\A L : RisesBut(window, L)) /\ \A i \in 1 .. Len(window) : FALSE
  BY <1>1 DEF Live, RisesBut
<1> QED
  BY <1>1, <1>2, <1>3 DEF ZulipInv

\* What a history lacks does not change with what is posted after it.
LEMMA HiddenStays ==
  ASSUME NEW p \in Seq(Kinds), NEW kind \in Kinds, NEW r, NEW f \in 0 .. Len(p)
  PROVE  Hidden(Append(p, kind), r, f) = Hidden(p, r, f)
<1>1. /\ Plain(Append(p, kind)) \subseteq Plain(p) \cup {Len(p) + 1} /\ Plain(p) \subseteq Plain(Append(p, kind))
      /\ Len(p) \in Nat
  BY PlainPosted
<1>2. \A n : Len(p) + 1 \notin n + 1 .. f
  BY <1>1
<1>3. \A n : Plain(Append(p, kind)) \cap n + 1 .. f = Plain(p) \cap n + 1 .. f
  BY <1>1, <1>2
<1> QED
  BY <1>3 DEF Hidden

LEMMA ZulipPosted ==
  ASSUME RoomAssumption, ZulipInv, NEW kind \in Kinds, IsPosted(kind), UNCHANGED zulipVars
  PROVE  ZulipInv'
<1>1. /\ WaitInv /\ posted \in Seq(Kinds) /\ Len(posted) \in Nat
      /\ position \in 0 .. Len(posted) /\ fetchedAt \in 0 .. Len(posted)
      /\ registered \in 0 .. Len(posted) \cup {None}
  BY DEF ZulipInv, WaitInv, RoomInv
<1>2. UNCHANGED <<registered, fetchedAt, overwritten, task, window, shown, position, forgotten>>
  BY DEF zulipVars, IsPosted
<1>3. /\ WaitInv' /\ Len(posted') = Len(posted) + 1
      /\ Plain(posted') \subseteq Plain(posted) \cup {Len(posted) + 1}
  BY <1>1, WaitPosted
<1>4. Plain(posted') \cap 1 .. position \subseteq Plain(posted) \cap 1 .. position
  <2>1. Len(posted) + 1 \notin 1 .. position
    BY <1>1
  <2> QED
    BY <1>3, <2>1
<1>5. Hidden(posted', registered, fetchedAt) = Hidden(posted, registered, fetchedAt)
  BY <1>1, HiddenStays DEF IsPosted
<1>6. registered' \in 0 .. Len(posted') \cup {None} /\ fetchedAt' \in 0 .. Len(posted') /\ (Live' <=> Live) /\ None' = None
  BY <1>1, <1>2, <1>3 DEF Live, None
<1> QED
  BY <1>2, <1>3, <1>4, <1>5, <1>6 DEF ZulipInv, RisesBut

LEMMA ZulipWaits ==
  ASSUME RoomAssumption, ZulipInv, Waits, UNCHANGED zulipVars
  PROVE  ZulipInv'
<1>1. WaitInv' /\ WaitInv
  BY WaitWaits DEF ZulipInv
<1>2. UNCHANGED <<registered, fetchedAt, overwritten, window, posted, shown, position>>
  BY DEF zulipVars, Waits
<1>3. task' = "connecting" => window' = <<>> /\ (registered' # None' => forgotten' <= registered')
  <2> SUFFICES ASSUME task' = "connecting" PROVE window' = <<>> /\ (registered' # None' => forgotten' <= registered')
    OBVIOUS
  <2>1. task = "connecting" /\ ~ Live
    BY DEF Waits, Live
  <2>2. forgotten' = forgotten
    BY <2>1 DEF Waits
  <2> QED
    BY <1>2, <2>1, <2>2 DEF ZulipInv, None
<1>4. Live' => Live /\ forgotten' <= position'
  <2> SUFFICES ASSUME Live' PROVE Live /\ forgotten' <= position'
    OBVIOUS
  <2>1. Live /\ forgotten <= position
    BY DEF Waits, ZulipInv
  <2>2. position \in Nat
    BY <1>1 DEF WaitInv, RoomInv
  <2> QED
    BY <1>2, <2>1, <2>2 DEF Waits
<1> QED
  BY <1>1, <1>2, <1>3, <1>4 DEF ZulipInv, RisesBut, None

LEMMA ZulipConnects ==
  ASSUME RoomAssumption, ZulipInv, Z!FetchHistory
  PROVE  ZulipInv'
<1> DEFINE n == Len(posted)
           w == LastOnes(InOrder(Plain(posted) \cap 1 .. n), HistoryLimit)
<1>1. /\ registered # None /\ ConnectsWith(w, registered) /\ fetchedAt' = n
      /\ UNCHANGED <<registered, overwritten>>
  BY ZulipIs DEF Z!FetchHistory, Z!History, Z!Connected, Z!Show, ConnectsWith
<1>2. /\ WaitInv /\ posted \in Seq(Kinds) /\ n \in Nat /\ registered \in 0 .. n /\ registered \in Nat
      /\ overwritten \in SUBSET Nat /\ forgotten <= registered
      /\ HistoryLimit \in Nat /\ Cap \in Nat /\ HistoryLimit <= Cap
  BY <1>1 DEF ZulipInv, WaitInv, RoomInv, RoomAssumption, ConnectsWith
<1>3. Plain(posted) \in SUBSET (1 .. n) /\ Plain(posted) \cap 1 .. n = Plain(posted)
  BY <1>2, PlainIs
<1>4. n \in 0 .. n /\ registered' \in 0 .. n \cup {None}
  BY <1>1, <1>2
<1>5. posted' = posted /\ Len(posted') = n
  BY <1>1 DEF ConnectsWith
<1> HIDE DEF n
<1>6. /\ w \in Seq(Plain(posted)) /\ Len(w) <= HistoryLimit /\ Rises(w)
      /\ \A x \in Plain(posted) : x \in ToSet(w) \/ Cardinality(Plain(posted) \cap x + 1 .. n) >= HistoryLimit
  BY <1>2, <1>3, LastOfThoseInOrder
<1> HIDE DEF w
<1>7. w \in Seq(Nat) /\ Len(w) <= Cap /\ \A i \in 1 .. Len(w) : w[i] <= n
  <2>1. Plain(posted) \subseteq Nat /\ \A x \in Plain(posted) : x <= n
    BY <1>3
  <2>2. w \in Seq(Nat)
    BY <1>6, <2>1, SeqWider
  <2>3. \A i \in 1 .. Len(w) : w[i] \in Plain(posted)
    BY <1>6
  <2>4. Len(w) \in Nat
    BY <1>6
  <2> QED
    BY <1>2, <1>6, <2>1, <2>2, <2>3, <2>4
<1>8. WaitInv'
  BY <1>1, <1>2, <1>7, WaitConnects DEF n
<1>9. Plain(posted) \cap 1 .. registered \subseteq Hidden(posted, registered, n) \cup shown'
  BY <1>1, <1>6 DEF Hidden, ConnectsWith
<1>10. RisesBut(w, registered + 1 .. n)
  BY <1>6 DEF Rises, RisesBut
<1>11. registered <= registered /\ registered <= n
  BY <1>2
<1> QED
  BY <1>1, <1>2, <1>4, <1>5, <1>7, <1>8, <1>9, <1>10, <1>11 DEF ZulipInv, ConnectsWith, None

LEMMA ZulipAnswered ==
  ASSUME RoomAssumption, ZulipInv, Z!GetEvents
  PROVE  ZulipInv'
<1>1. /\ WaitInv /\ posted \in Seq(Kinds) /\ Len(posted) \in Nat /\ position \in 0 .. Len(posted)
      /\ Cap \in Nat \ {0} /\ window \in Seq(Nat)
      /\ fetchedAt \in 0 .. Len(posted) /\ registered \in 0 .. Len(posted) \cup {None}
      /\ overwritten \in SUBSET Nat /\ Plain(posted) \subseteq Nat /\ None \in Nat
  BY PlainIs DEF ZulipInv, WaitInv, RoomInv, RoomAssumption, None
<1>2. PICK k \in position + 1 .. Len(posted) :
        LET ns == Z!PlainFrom(position + 1, k) IN
        /\ Z!Answer(k, Z!Newest(ns, 1))
        /\ overwritten' = overwritten \cup Z!ToSet(Z!AllBut(ns, 1))
        /\ UNCHANGED <<registered, fetchedAt>>
  BY DEF Z!GetEvents
<1> DEFINE first == position + 1
           ns == InOrder(Plain(posted) \cap first .. k)
           vs == LastOnes(ns, 1)
<1>3. overwritten' = overwritten \cup ToSet(OlderOnes(ns, 1)) /\ UNCHANGED <<registered, fetchedAt>>
  BY <1>2, ZulipIs
<1>4. IsAnswered(k, vs)
  <2>1. Z!Answer(k, vs)
    BY <1>2, ZulipIs
  <2> HIDE DEF vs
  <2> QED
    BY <2>1, ZulipIs DEF Z!Answer, Z!Show, Z!taskVars, IsAnswered
<1>5. k \in Nat /\ k \in 0 .. Len(posted) /\ position \in Nat /\ first \in Nat /\ first = position + 1 /\ position < k
  BY <1>1
<1> HIDE DEF first
<1>6. /\ ns \in Seq(Nat) /\ Rises(ns) /\ ToSet(ns) = Plain(posted) \cap first .. k
      /\ \A i \in 1 .. Len(ns) : ns[i] \in Plain(posted) /\ first <= ns[i] /\ ns[i] <= k
  BY <1>1, <1>5, BatchIs
<1> HIDE DEF ns
<1>7. vs \in Seq(Nat) /\ Len(vs) <= 1 /\ Len(vs) \in Nat
  BY <1>6, LastOnesAre
<1>8. /\ ToSet(vs) \subseteq ToSet(ns) /\ ToSet(OlderOnes(ns, 1)) \subseteq ToSet(ns)
      /\ ToSet(ns) \subseteq ToSet(vs) \cup ToSet(OlderOnes(ns, 1))
  BY <1>6, LastOrOlder
<1> HIDE DEF vs
<1>9. Rises(vs)
  BY <1>7 DEF Rises
<1>10. \A i \in 1 .. Len(vs) : vs[i] \in Nat /\ position < vs[i] /\ vs[i] <= k
  <2>1. ToSet(vs) = {vs[i] : i \in 1 .. Len(vs)}
    BY <1>7, ToSetIs
  <2>2. \A x \in ToSet(ns) : x \in Nat /\ position < x /\ x <= k
    BY <1>1, <1>5, <1>6
  <2> QED
    BY <1>8, <2>1, <2>2
<1>11. ToSet(OlderOnes(vs, Cap)) = {}
  <2> DEFINE o == OlderOnes(vs, Cap)
  <2>1. o \in Seq(Nat) /\ Len(o) = (IF Cap < Len(vs) THEN Len(vs) - Cap ELSE 0)
    BY <1>1, <1>7, OlderOnesAre
  <2> HIDE DEF o
  <2>2. Len(o) = 0
    BY <1>1, <1>7, <2>1
  <2>3. ToSet(o) = {o[i] : i \in 1 .. Len(o)} /\ 1 .. 0 = {}
    BY <2>1, ToSetIs
  <2> QED
    BY <2>2, <2>3 DEF o
<1>12. /\ WaitInv' /\ shown \subseteq shown' /\ ToSet(vs) \subseteq shown'
       /\ \A i \in 1 .. Len(window') : \/ \E j \in 1 .. Len(window) : window'[i] = window[j]
                                       \/ \E j \in 1 .. Len(vs) : window'[i] = vs[j]
  BY <1>1, <1>4, <1>5, <1>7, <1>11, WaitAnswered
<1>13. /\ registered <= position /\ registered <= fetchedAt /\ forgotten <= position
       /\ Plain(posted) \cap 1 .. position \subseteq Hidden(posted, registered, fetchedAt) \cup shown \cup overwritten
  BY <1>4 DEF ZulipInv, Live, IsAnswered
<1>14. \A i \in 1 .. Len(window) : window[i] \in Nat /\ (window[i] <= position \/ window[i] <= fetchedAt)
  BY <1>1 DEF ZulipInv
<1>15. registered \in Nat /\ fetchedAt \in Nat /\ forgotten \in Nat
  BY <1>1 DEF WaitInv
<1>16. RisesBut(window', registered + 1 .. fetchedAt)
  <2> DEFINE L == registered + 1 .. fetchedAt
  <2>1. ASSUME NEW j \in 1 .. Len(vs), vs[j] \notin L, NEW i \in 1 .. Len(window) PROVE window[i] < vs[j]
    <3>1. vs[j] \in Nat /\ position < vs[j] /\ window[i] \in Nat
      BY <1>10, <1>14
    <3>2. fetchedAt < vs[j]
      BY <1>5, <1>13, <1>15, <2>1, <3>1
    <3> QED
      BY <1>5, <1>14, <1>15, <3>1, <3>2
  <2>2. RisesBut(window, L)
    BY DEF ZulipInv
  <2> HIDE DEF L
  <2>3. RisesBut(window', L)
    BY <1>1, <1>4, <1>5, <1>7, <1>9, <2>1, <2>2, WindowAnswered
  <2> QED
    BY <2>3 DEF L
<1>17. \A i \in 1 .. Len(window') : window'[i] <= k \/ window'[i] <= fetchedAt
  <2>1. \A i \in 1 .. Len(window) : window[i] <= k \/ window[i] <= fetchedAt
    BY <1>5, <1>14
  <2>2. \A i \in 1 .. Len(vs) : vs[i] <= k
    BY <1>10
  <2> QED
    BY <1>12, <2>1, <2>2
<1>18. Plain(posted) \cap 1 .. k \subseteq Hidden(posted, registered, fetchedAt) \cup shown' \cup overwritten'
  <2>1. 1 .. k \subseteq 1 .. position \cup first .. k
    BY <1>5
  <2>2. Plain(posted) \cap first .. k \subseteq shown' \cup overwritten'
    BY <1>3, <1>6, <1>8, <1>12
  <2> QED
    BY <1>3, <1>12, <1>13, <2>1, <2>2
<1>19. registered <= k /\ forgotten <= k
  BY <1>5, <1>13, <1>15
<1>20. overwritten' \in SUBSET Nat
  BY <1>1, <1>3, <1>6, <1>8
<1>21. UNCHANGED <<posted, task, forgotten>> /\ position' = k /\ task = "receiving"
  BY <1>4 DEF IsAnswered
<1> QED
  BY <1>1, <1>3, <1>12, <1>13, <1>16, <1>17, <1>18, <1>19, <1>20, <1>21 DEF ZulipInv, None

LEMMA ZulipSteps ==
  ASSUME RoomAssumption, ZulipInv, Z!Next PROVE ZulipInv'
<1>1. /\ WaitInv
      /\ task \in TaskStates /\ queued \in Nat /\ polling \in BOOLEAN /\ (polling => task = "receiving")
      /\ posted \in Seq(Kinds) /\ Len(posted) \in Nat /\ position \in 0 .. Len(posted)
      /\ forgotten \in 0 .. Len(posted) /\ restarts \in Nat
  BY DEF ZulipInv, WaitInv, RoomInv
<1>2. ASSUME NEW kind \in {"message", "other"}, Z!Post(kind) /\ UNCHANGED Z!pollVars, UNCHANGED Z!zulipVars
      PROVE  ZulipInv'
  <2>1. IsPosted(kind) /\ UNCHANGED zulipVars
    BY <1>2 DEF Z!Post, Z!taskVars, Z!pollVars, Z!zulipVars, zulipVars, IsPosted
  <2> QED
    BY <2>1, ZulipPosted DEF Kinds
<1>3. ASSUME Waits, UNCHANGED Z!zulipVars PROVE ZulipInv'
  BY <1>3, ZulipWaits DEF Z!zulipVars, zulipVars
<1>4. CASE Z!Request /\ UNCHANGED Z!zulipVars
  <2>1. forgotten' = forgotten \/ (forgotten <= position /\ forgotten' = position)
    <3>1. forgotten' = (IF forgotten > position THEN forgotten ELSE position)
      BY <1>4, ZulipIs DEF Z!Request
    <3> QED
      BY <1>1, <3>1
  <2>2. Waits
    BY <1>1, <1>4, <2>1 DEF Z!Request, Z!taskVars, Z!feedVars, Waits, Live
  <2> QED
    BY <1>3, <1>4, <2>2
<1>5. CASE Z!AnswerNothing /\ UNCHANGED Z!zulipVars
  BY <1>1, <1>3, <1>5 DEF Z!AnswerNothing, Z!taskVars, Z!feedVars, Waits, Live
<1>6. CASE Z!Submit /\ UNCHANGED Z!zulipVars
  BY <1>1, <1>3, <1>6 DEF Z!Submit, Z!SubmitIntent, Z!feedVars, Z!pollVars, Waits, Live
<1>7. CASE Z!PollEnds /\ UNCHANGED Z!zulipVars
  BY <1>1, <1>3, <1>7 DEF Z!PollEnds, Z!TaskEnds, Z!feedVars, Waits, Live, TaskStates
<1>8. CASE Z!SendDone /\ UNCHANGED Z!zulipVars
  BY <1>1, <1>3, <1>8 DEF Z!SendDone, Z!SendReturns, Z!feedVars, Z!pollVars, Waits, Live, TaskStates
<1>9. CASE Z!Cancel /\ UNCHANGED Z!zulipVars
  <2>1. /\ task = "receiving" /\ task' \in {"sending", "receiving"} /\ queued > 0 /\ queued' = queued - 1
        /\ polling' = FALSE /\ UNCHANGED <<posted, window, shown, position, forgotten, restarts>>
    BY <1>9 DEF Z!Cancel, Z!TakeIntent, Z!feedVars
  <2>2. queued' \in Nat /\ task' \in TaskStates
    BY <1>1, <2>1 DEF TaskStates
  <2> QED
    BY <1>3, <1>9, <2>1, <2>2 DEF Waits, Live
<1>10. CASE Z!Register
  <2>1. /\ task = "connecting" /\ registered' = Len(posted)
        /\ UNCHANGED <<task, queued, posted, window, shown, position, polling, forgotten, restarts, fetchedAt, overwritten>>
    BY <1>10 DEF Z!Register, Z!taskVars, Z!feedVars, Z!pollVars
  <2>2. WaitInv'
    BY <1>1, <2>1, WaitWaits DEF Waits, Live
  <2>3. window = <<>> /\ forgotten <= Len(posted) /\ Len(posted) \in 0 .. Len(posted) /\ ~ Live
    BY <1>1, <2>1 DEF ZulipInv, Live
  <2>4. \A L : RisesBut(<<>>, L)
    BY DEF RisesBut
  <2> QED
    BY <2>1, <2>2, <2>3, <2>4 DEF ZulipInv, None, Live
<1>11. CASE Z!FetchHistory
  BY <1>11, ZulipConnects
<1>12. CASE Z!GetEvents
  BY <1>12, ZulipAnswered
<1>13. CASE Z!ZulipRestart
  <2>1. StartsAnew /\ registered' = None /\ UNCHANGED <<fetchedAt, overwritten>>
    BY <1>13, ZulipIs DEF Z!ZulipRestart, Z!Restart, StartsAnew
  <2>2. WaitInv'
    BY <1>1, <2>1, WaitStartsAnew
  <2>3. \A L : RisesBut(<<>>, L)
    BY DEF RisesBut
  <2>4. Len(<<>>) = 0
    OBVIOUS
  <2> QED
    BY <2>1, <2>2, <2>3, <2>4 DEF ZulipInv, StartsAnew, Live, None
<1> QED
  BY <1>2, <1>4, <1>5, <1>6, <1>7, <1>8, <1>9, <1>10, <1>11, <1>12, <1>13 DEF Z!Next, Z!PollStep

-----------------------------------------------------------------------------
(* Telegram *)

\* The last of the updates that are pending.
Pending(f, n) == f + (IF AnswerLimit < n - f THEN AnswerLimit ELSE n - f)

LEMMA TelegramIs ==
  /\ \A s : T!ToSet(s) = ToSet(s)
  /\ T!Live <=> Live
  /\ T!Messages = Plain(posted)
  /\ \A m, n : T!PlainFrom(m, n) = InOrder(Plain(posted) \cap m .. n)
  /\ \A w, ns : T!PushAll(w, ns) = LastOnes(w \o ns, Cap)
  /\ \A s, k : T!AllBut(s, k) = OlderOnes(s, k)
  /\ \A s : T!FirstOf(s) = FirstOnes(s, Cap)
  /\ \A a, b : T!Higher(a, b) = (IF a > b THEN a ELSE b)
  /\ T!LastPending = Pending(forgotten, Len(posted))
<1>1. \A s : T!ToSet(s) = ToSet(s)
  BY DEF T!ToSet, ToSet
<1>2. T!Live <=> Live
  BY DEF T!Live, Live
<1>3. T!Messages = Plain(posted)
  BY DEF T!Messages, Plain
<1>4. \A A : T!Cardinality(A) = Cardinality(A)
  BY DEF T!Cardinality, Cardinality, T!IsFiniteSet, IsFiniteSet
<1>5. \A m, n : T!PlainFrom(m, n) = InOrder(Plain(posted) \cap m .. n)
  BY <1>3, <1>4 DEF T!PlainFrom, T!Sorted, InOrder
<1>6. \A w, ns : T!PushAll(w, ns) = LastOnes(w \o ns, Cap)
  BY DEF T!PushAll, T!Newest, T!Lower, LastOnes
<1>7. \A s, k : T!AllBut(s, k) = OlderOnes(s, k)
  BY DEF T!AllBut, T!Lower, OlderOnes
<1>8. \A s : T!FirstOf(s) = FirstOnes(s, Cap)
  BY DEF T!FirstOf, T!Lower, FirstOnes
<1>9. \A a, b : T!Higher(a, b) = (IF a > b THEN a ELSE b)
  BY DEF T!Higher
<1>10. T!LastPending = Pending(forgotten, Len(posted))
  BY DEF T!LastPending, T!Lower, Pending
<1> QED
  BY <1>1, <1>2, <1>3, <1>5, <1>6, <1>7, <1>8, <1>9, <1>10

LEMMA PendingIs ==
  ASSUME LongPollAssumption, NEW n \in Nat, NEW f \in 0 .. n
  PROVE  Pending(f, n) \in f .. n /\ Pending(f, n) \in 0 .. n /\ Pending(f, n) <= Pending(f, n + 1)
<1>1. AnswerLimit \in Nat
  BY DEF LongPollAssumption
<1> QED
  BY <1>1 DEF Pending

LEMMA TelegramStarts ==
  ASSUME RoomAssumption, Init, connector = "telegram" PROVE TelegramInv
<1>1. /\ WaitInv /\ Len(posted) = 0 /\ window = <<>> /\ task = "connecting" /\ forgotten = 0
  BY WaitStarts
<1>2. recent = T!NotFetched /\ offsetAt = 0 /\ skipped = {} /\ crowded = {}
  BY DEF Init, T!Init
<1>3. ~ Live /\ 1 .. forgotten = {} /\ T!NotFetched \in Seq(Nat)
  BY <1>1 DEF Live, T!NotFetched
<1> QED
  BY <1>1, <1>2, <1>3 DEF TelegramInv

LEMMA TelegramPosted ==
  ASSUME RoomAssumption, LongPollAssumption, TelegramInv, NEW kind \in Kinds, IsPosted(kind), UNCHANGED telegramVars
  PROVE  TelegramInv'
<1>1. /\ WaitInv /\ posted \in Seq(Kinds) /\ Len(posted) \in Nat
      /\ position \in 0 .. Len(posted) /\ forgotten \in 0 .. Len(posted)
  BY DEF TelegramInv, WaitInv, RoomInv
<1>2. UNCHANGED <<recent, offsetAt, skipped, crowded, task, window, shown, position, forgotten>>
  BY DEF telegramVars, IsPosted
<1>3. /\ WaitInv' /\ Len(posted') = Len(posted) + 1
      /\ Plain(posted') \subseteq Plain(posted) \cup {Len(posted) + 1}
  BY <1>1, WaitPosted
<1>4. /\ Plain(posted') \cap 1 .. position \subseteq Plain(posted) \cap 1 .. position
      /\ Plain(posted') \cap 1 .. forgotten \subseteq Plain(posted) \cap 1 .. forgotten
  <2>1. Len(posted) + 1 \notin 1 .. position /\ Len(posted) + 1 \notin 1 .. forgotten
    BY <1>1
  <2> QED
    BY <1>3, <2>1
<1>5. recent' # T!NotFetched' => Len(recent') <= Cap /\ Rises(recent') /\ UpTo(recent', T!LastPending')
  <2> SUFFICES ASSUME recent # T!NotFetched
               PROVE  Len(recent) <= Cap /\ Rises(recent) /\ UpTo(recent, T!LastPending')
    BY <1>2 DEF T!NotFetched
  <2> DEFINE old == Pending(forgotten, Len(posted))
             new == Pending(forgotten, Len(posted) + 1)
  <2>1. T!LastPending = old /\ T!LastPending' = new
    <3>1. T!LastPending' = Pending(forgotten', Len(posted'))
      BY DEF T!LastPending, T!Lower, Pending
    <3> QED
      BY <1>2, <1>3, <3>1, TelegramIs
  <2>2. old \in 0 .. Len(posted) /\ new \in 0 .. Len(posted) + 1 /\ old <= new
    <3>1. forgotten \in 0 .. Len(posted) + 1 /\ Len(posted) + 1 \in Nat
      BY <1>1
    <3> QED
      BY <1>1, <3>1, PendingIs
  <2> HIDE DEF old, new
  <2>3. recent \in Seq(Nat) /\ Len(recent) <= Cap /\ Rises(recent) /\ \A i \in 1 .. Len(recent) : recent[i] <= old
    BY <2>1 DEF TelegramInv, UpTo
  <2>4. \A i \in 1 .. Len(recent) : recent[i] <= new
    <3>1. \A i \in 1 .. Len(recent) : recent[i] \in Nat /\ recent[i] <= old
      BY <2>3
    <3>2. old \in Nat /\ new \in Nat
      BY <1>1, <2>2
    <3> QED
      BY <2>2, <3>1, <3>2
  <2> QED
    BY <2>1, <2>3, <2>4 DEF UpTo
<1>6. Live' <=> Live
  BY <1>2 DEF Live
<1> QED
  BY <1>2, <1>3, <1>4, <1>5, <1>6 DEF TelegramInv, Rises, UpTo, T!NotFetched

LEMMA TelegramWaits ==
  ASSUME RoomAssumption, TelegramInv, Waits, UNCHANGED telegramVars
  PROVE  TelegramInv'
<1>1. WaitInv' /\ WaitInv
  BY WaitWaits DEF TelegramInv
<1>2. UNCHANGED <<recent, offsetAt, skipped, crowded, window, posted, shown, position>>
  BY DEF telegramVars, Waits
<1>3. Plain(posted) \cap 1 .. forgotten' \subseteq shown \cup skipped \cup crowded
  BY DEF Waits, TelegramInv
<1>4. recent' = T!NotFetched' \/ task' \in {"connecting", "ended"}
  BY <1>2 DEF Waits, TelegramInv, T!NotFetched, Live, TaskStates
<1>5. recent' # T!NotFetched' => Len(recent') <= Cap /\ Rises(recent') /\ UpTo(recent', T!LastPending')
  <2> SUFFICES ASSUME recent # T!NotFetched
               PROVE  Len(recent) <= Cap /\ Rises(recent) /\ UpTo(recent, T!LastPending')
    BY <1>2 DEF T!NotFetched
  <2>1. ~ Live
    BY DEF TelegramInv, Live
  <2>2. forgotten' = forgotten
    BY <2>1 DEF Waits
  <2>3. T!LastPending' = Pending(forgotten', Len(posted'))
    BY DEF T!LastPending, T!Lower, Pending
  <2>4. T!LastPending' = T!LastPending
    BY <1>2, <2>2, <2>3, TelegramIs
  <2> QED
    BY <2>4 DEF TelegramInv
<1>6. Live' => Live
  BY DEF Waits
<1>7. task' = "connecting" => window' = <<>>
  BY <1>2 DEF Waits, TelegramInv
<1> QED
  BY <1>1, <1>2, <1>3, <1>4, <1>5, <1>6, <1>7 DEF TelegramInv, Rises, UpTo

LEMMA TelegramFetchesRecent ==
  ASSUME RoomAssumption, LongPollAssumption, TelegramInv, T!FetchRecent
  PROVE  TelegramInv'
<1> DEFINE first == forgotten + 1
           end == Pending(forgotten, Len(posted))
           ns == InOrder(Plain(posted) \cap first .. end)
<1>1. /\ WaitInv /\ posted \in Seq(Kinds) /\ Len(posted) \in Nat /\ forgotten \in 0 .. Len(posted) /\ Cap \in Nat
  BY DEF TelegramInv, WaitInv, RoomInv, RoomAssumption
<1>2. /\ task = "connecting" /\ recent' \in {FirstOnes(ns, Cap), <<>>}
      /\ UNCHANGED <<task, queued, posted, window, shown, position, polling, forgotten, restarts, offsetAt, skipped, crowded>>
  BY TelegramIs DEF T!FetchRecent, T!taskVars, T!feedVars, T!pollVars
<1>3. T!LastPending' = end
  <2>1. T!LastPending' = Pending(forgotten', Len(posted'))
    BY DEF T!LastPending, T!Lower, Pending
  <2> QED
    BY <1>2, <2>1
<1>4. first \in Nat /\ end \in Nat
  BY <1>1, PendingIs
<1> HIDE DEF first, end
<1>5. /\ ns \in Seq(Nat) /\ Rises(ns) /\ \A i \in 1 .. Len(ns) : ns[i] <= end
  BY <1>1, <1>4, BatchIs
<1> HIDE DEF ns
<1>6. /\ FirstOnes(ns, Cap) \in Seq(Nat) /\ Len(FirstOnes(ns, Cap)) <= Cap
      /\ Len(FirstOnes(ns, Cap)) <= Len(ns) /\ Rises(FirstOnes(ns, Cap))
      /\ \A i \in 1 .. Len(FirstOnes(ns, Cap)) : FirstOnes(ns, Cap)[i] = ns[i]
  BY <1>1, <1>5, FirstOnesAre
<1>7. recent' \in Seq(Nat) /\ Len(recent') <= Cap /\ Rises(recent') /\ UpTo(recent', end)
  <2>1. CASE recent' = <<>>
    <3>1. <<>> \in Seq(Nat) /\ Len(<<>>) = 0 /\ Rises(<<>>) /\ UpTo(<<>>, end)
      BY DEF Rises, UpTo
    <3> QED
      BY <1>1, <2>1, <3>1
  <2>2. CASE recent' = FirstOnes(ns, Cap)
    <3> DEFINE r == FirstOnes(ns, Cap)
    <3>1. \A i \in 1 .. Len(r) : i \in 1 .. Len(ns)
      BY <1>5, <1>6
    <3>2. UpTo(r, end)
      BY <1>5, <1>6, <3>1 DEF UpTo
    <3> QED
      BY <1>6, <2>2, <3>2
  <2> QED
    BY <1>2, <2>1, <2>2
<1>8. WaitInv'
  BY <1>1, <1>2, WaitWaits DEF Waits, WaitInv, RoomInv
<1>9. ~ Live /\ ~ Live'
  BY <1>2 DEF Live
<1> QED
  BY <1>2, <1>3, <1>7, <1>8, <1>9 DEF TelegramInv, Rises, UpTo

LEMMA TelegramConnects ==
  ASSUME RoomAssumption, LongPollAssumption, TelegramInv, T!FetchOffset
  PROVE  TelegramInv'
<1>1. /\ WaitInv /\ posted \in Seq(Kinds) /\ Len(posted) \in Nat /\ forgotten \in 0 .. Len(posted)
      /\ skipped \in SUBSET Nat /\ crowded \in SUBSET Nat /\ Plain(posted) \subseteq Nat
  BY PlainIs DEF TelegramInv, WaitInv, RoomInv
<1>2. PICK p \in T!InitialOffsets :
        /\ recent # T!NotFetched /\ ConnectsWith(recent, p) /\ offsetAt' = p
        /\ skipped' = skipped \cup ((Plain(posted) \cap 1 .. p) \ (shown \cup ToSet(recent)))
        /\ recent' = T!NotFetched /\ UNCHANGED crowded
  BY TelegramIs DEF T!FetchOffset, T!Connected, T!Show, ConnectsWith
<1>3. p = 0 \/ p = T!LastPending
  BY DEF T!InitialOffsets
<1>4. p \in 0 .. Len(posted)
  <2>1. T!LastPending \in 0 .. Len(posted)
    BY <1>1, TelegramIs, PendingIs
  <2>2. 0 \in 0 .. Len(posted)
    BY <1>1
  <2> QED
    BY <1>3, <2>1, <2>2
<1>5. recent \in Seq(Nat) /\ Len(recent) <= Cap /\ Rises(recent) /\ UpTo(recent, T!LastPending)
  BY <1>2 DEF TelegramInv
<1>6. WaitInv'
  BY <1>1, <1>2, <1>4, <1>5, WaitConnects
<1>7. window' = recent /\ shown' = shown \cup ToSet(recent) /\ position' = p /\ task' = "receiving" /\ UNCHANGED <<posted, forgotten>>
  BY <1>2 DEF ConnectsWith
<1>8. Plain(posted) \cap 1 .. p \subseteq shown' \cup skipped'
  BY <1>2, <1>7
<1>9. Plain(posted) \cap 1 .. forgotten \subseteq shown' \cup skipped' \cup crowded
  BY <1>2, <1>7 DEF TelegramInv
<1>10. offsetAt' > 0 => Rises(window') /\ UpTo(window', position')
  BY <1>2, <1>3, <1>5, <1>7
<1>11. offsetAt' \in Nat /\ skipped' \in SUBSET Nat /\ T!NotFetched \in Seq(Nat)
  <2>1. offsetAt' \in Nat
    BY <1>2, <1>4
  <2>2. skipped' \in SUBSET Nat
    BY <1>1, <1>2
  <2>3. T!NotFetched \in Seq(Nat)
    BY DEF T!NotFetched
  <2> QED
    BY <2>1, <2>2, <2>3
<1> QED
  BY <1>1, <1>2, <1>6, <1>7, <1>8, <1>9, <1>10, <1>11 DEF TelegramInv, T!NotFetched

LEMMA TelegramAnswered ==
  ASSUME RoomAssumption, TelegramInv, T!GetUpdates
  PROVE  TelegramInv'
<1>1. /\ WaitInv /\ posted \in Seq(Kinds) /\ Len(posted) \in Nat /\ position \in 0 .. Len(posted)
      /\ forgotten \in 0 .. Len(posted) /\ Cap \in Nat /\ window \in Seq(Nat)
      /\ crowded \in SUBSET Nat /\ Plain(posted) \subseteq Nat
  BY PlainIs DEF TelegramInv, WaitInv, RoomInv, RoomAssumption
<1>2. PICK k \in position + 1 .. Len(posted) :
        LET first == T!Higher(position, forgotten)
            batch == T!PlainFrom(first + 1, k)
        IN
        /\ T!Answer(k, batch)
        /\ crowded' = crowded \cup T!ToSet(T!AllBut(batch, Cap))
        /\ UNCHANGED <<recent, offsetAt, skipped>>
  BY DEF T!GetUpdates
<1> DEFINE high == IF position > forgotten THEN position ELSE forgotten
           first == high + 1
           ns == InOrder(Plain(posted) \cap first .. k)
<1>3. crowded' = crowded \cup ToSet(OlderOnes(ns, Cap)) /\ UNCHANGED <<recent, offsetAt, skipped>>
  BY <1>2, TelegramIs
<1>4. IsAnswered(k, ns)
  <2>1. T!Answer(k, ns)
    BY <1>2, TelegramIs
  <2> HIDE DEF ns
  <2> QED
    BY <2>1, TelegramIs DEF T!Answer, T!Show, T!taskVars, IsAnswered
<1>5. /\ k \in Nat /\ k \in 0 .. Len(posted) /\ position \in Nat /\ forgotten \in Nat /\ position <= k
      /\ first \in Nat /\ position < first /\ 1 .. first - 1 \subseteq 1 .. position \cup 1 .. forgotten
  BY <1>1
<1> HIDE DEF first
<1>6. /\ ns \in Seq(Nat) /\ Rises(ns) /\ ToSet(ns) = Plain(posted) \cap first .. k
      /\ \A i \in 1 .. Len(ns) : ns[i] \in Plain(posted) /\ first <= ns[i] /\ ns[i] <= k
  BY <1>1, <1>5, BatchIs
<1> HIDE DEF ns
<1>7. /\ WaitInv' /\ shown \subseteq shown' /\ ToSet(ns) \subseteq shown' \cup ToSet(OlderOnes(ns, Cap))
      /\ \A i \in 1 .. Len(window') : \/ \E j \in 1 .. Len(window) : window'[i] = window[j]
                                      \/ \E j \in 1 .. Len(ns) : window'[i] = ns[j]
  BY <1>1, <1>4, <1>5, <1>6, WaitAnswered
<1>8. /\ Plain(posted) \cap 1 .. position \subseteq shown \cup skipped \cup crowded
      /\ Plain(posted) \cap 1 .. forgotten \subseteq shown \cup skipped \cup crowded
  BY <1>4 DEF TelegramInv, Live, IsAnswered
<1>9. Plain(posted) \cap 1 .. k \subseteq shown' \cup skipped' \cup crowded'
  <2>1. 1 .. k \subseteq 1 .. first - 1 \cup first .. k
    BY <1>5
  <2> QED
    BY <1>3, <1>5, <1>6, <1>7, <1>8, <2>1
<1>10. ASSUME offsetAt > 0 PROVE Rises(window') /\ UpTo(window', k)
  <2>1. \A i \in 1 .. Len(window) : window[i] \in Nat /\ window[i] <= position
    BY <1>1, <1>10 DEF TelegramInv, UpTo
  <2>2. \A i \in 1 .. Len(ns) : ns[i] \in Nat /\ position < ns[i] /\ ns[i] <= k
    <3>1. \A i \in 1 .. Len(ns) : ns[i] \in Nat /\ first <= ns[i] /\ ns[i] <= k
      BY <1>6
    <3> QED
      BY <1>5, <3>1
  <2>3. \A j \in 1 .. Len(ns) : \A i \in 1 .. Len(window) : window[i] < ns[j]
    BY <1>5, <2>1, <2>2
  <2>4. \A s : Rises(s) <=> RisesBut(s, {})
    BY DEF Rises, RisesBut
  <2>5. RisesBut(window', {})
    BY <1>1, <1>4, <1>5, <1>6, <1>10, <2>3, <2>4, WindowAnswered DEF TelegramInv
  <2>6. \A i \in 1 .. Len(window) : window[i] <= k
    BY <1>5, <2>1
  <2>7. UpTo(window', k)
    BY <1>7, <2>2, <2>6 DEF UpTo
  <2> QED
    BY <2>4, <2>5, <2>7
<1>11. crowded' \in SUBSET Nat
  <2>1. ToSet(OlderOnes(ns, Cap)) \subseteq ToSet(ns)
    BY <1>1, <1>6, LastOrOlder
  <2> QED
    BY <1>1, <1>3, <1>6, <2>1
<1>12. UNCHANGED <<posted, task, forgotten>> /\ position' = k /\ task = "receiving"
  BY <1>4 DEF IsAnswered
<1>13. recent = T!NotFetched
  BY <1>12 DEF TelegramInv
<1>14. Plain(posted) \cap 1 .. forgotten \subseteq shown' \cup skipped' \cup crowded'
  BY <1>3, <1>7, <1>8
<1> QED
  BY <1>3, <1>7, <1>9, <1>10, <1>11, <1>12, <1>13, <1>14 DEF TelegramInv, T!NotFetched

LEMMA TelegramSteps ==
  ASSUME RoomAssumption, LongPollAssumption, TelegramInv, T!Next PROVE TelegramInv'
<1>1. /\ WaitInv
      /\ task \in TaskStates /\ queued \in Nat /\ polling \in BOOLEAN /\ (polling => task = "receiving")
      /\ posted \in Seq(Kinds) /\ Len(posted) \in Nat /\ position \in 0 .. Len(posted)
      /\ forgotten \in 0 .. Len(posted) /\ restarts \in Nat
  BY DEF TelegramInv, WaitInv, RoomInv
<1>2. ASSUME NEW kind \in {"message", "other"}, T!Post(kind) /\ UNCHANGED T!pollVars, UNCHANGED T!telegramVars
      PROVE  TelegramInv'
  <2>1. IsPosted(kind) /\ UNCHANGED telegramVars
    BY <1>2 DEF T!Post, T!taskVars, T!pollVars, T!telegramVars, telegramVars, IsPosted
  <2> QED
    BY <2>1, TelegramPosted DEF Kinds
<1>3. ASSUME Waits, UNCHANGED T!telegramVars PROVE TelegramInv'
  BY <1>3, TelegramWaits DEF T!telegramVars, telegramVars
<1>4. CASE T!Request /\ UNCHANGED T!telegramVars
  <2>1. forgotten' = forgotten \/ (forgotten <= position /\ forgotten' = position)
    <3>1. forgotten' = (IF forgotten > position THEN forgotten ELSE position)
      BY <1>4, TelegramIs DEF T!Request
    <3> QED
      BY <1>1, <3>1
  <2>2. Waits
    BY <1>1, <1>4, <2>1 DEF T!Request, T!taskVars, T!feedVars, Waits, Live
  <2> QED
    BY <1>3, <1>4, <2>2
<1>5. CASE T!AnswerNothing /\ UNCHANGED T!telegramVars
  BY <1>1, <1>3, <1>5 DEF T!AnswerNothing, T!taskVars, T!feedVars, Waits, Live
<1>6. CASE T!Submit /\ UNCHANGED T!telegramVars
  BY <1>1, <1>3, <1>6 DEF T!Submit, T!SubmitIntent, T!feedVars, T!pollVars, Waits, Live
<1>7. CASE T!PollEnds /\ UNCHANGED T!telegramVars
  BY <1>1, <1>3, <1>7 DEF T!PollEnds, T!TaskEnds, T!feedVars, Waits, Live, TaskStates
<1>8. CASE T!SendDone /\ UNCHANGED T!telegramVars
  BY <1>1, <1>3, <1>8 DEF T!SendDone, T!SendReturns, T!feedVars, T!pollVars, Waits, Live, TaskStates
<1>9. CASE T!Cancel /\ UNCHANGED T!telegramVars
  <2>1. /\ task = "receiving" /\ task' \in {"sending", "receiving"} /\ queued > 0 /\ queued' = queued - 1
        /\ polling' = FALSE /\ UNCHANGED <<posted, window, shown, position, forgotten, restarts>>
    BY <1>9 DEF T!Cancel, T!TakeIntent, T!feedVars
  <2>2. queued' \in Nat /\ task' \in TaskStates
    BY <1>1, <2>1 DEF TaskStates
  <2> QED
    BY <1>3, <1>9, <2>1, <2>2 DEF Waits, Live
<1>10. CASE T!FetchRecent
  BY <1>10, TelegramFetchesRecent
<1>11. CASE T!FetchOffset
  BY <1>11, TelegramConnects
<1>12. CASE T!GetUpdates
  BY <1>12, TelegramAnswered
<1>13. CASE T!TelegramRestart
  <2>1. StartsAnew /\ recent' = T!NotFetched /\ UNCHANGED <<offsetAt, skipped, crowded>>
    BY <1>13 DEF T!TelegramRestart, T!Restart, StartsAnew
  <2>2. WaitInv'
    BY <1>1, <2>1, WaitStartsAnew
  <2>3. Rises(<<>>) /\ UpTo(<<>>, position') /\ T!NotFetched \in Seq(Nat)
    BY DEF Rises, UpTo, T!NotFetched
  <2> QED
    BY <2>1, <2>2, <2>3 DEF TelegramInv, StartsAnew, Live, T!NotFetched
<1> QED
  BY <1>2, <1>4, <1>5, <1>6, <1>7, <1>8, <1>9, <1>10, <1>11, <1>12, <1>13 DEF T!Next, T!PollStep

-----------------------------------------------------------------------------
(* All of them *)

LEMMA OneOfThem == Spec => [](connector \in Connectors)
<1>1. Init => connector \in Connectors
  BY DEF Init
<1>2. connector \in Connectors /\ [Next]_vars => (connector \in Connectors)'
  BY DEF Next, vars
<1> QED
  BY <1>1, <1>2, PTL DEF Spec

LEMMA PollsStart ==
  ASSUME Init PROVE PollsInv
<1>1. connector = "sqlite_chat" \/ connector # "sqlite_chat"
  OBVIOUS
<1>2. connector = "sqlite_chat" => ChatInv
  BY RoomAssumption, ChatStarts
<1>3. connector # "sqlite_chat" => SqliteInv /\ GithubInv /\ MaillistInv
  BY RoomAssumption, SqliteStarts, GithubStarts, MaillistStarts
<1>4. FsInv
  BY RoomAssumption, FsStarts
<1>5. connector = "telegram" => TelegramInv
  BY RoomAssumption, TelegramStarts
<1>6. connector = "zulip" => ZulipInv
  BY RoomAssumption, ZulipStarts
<1>7. connector = "matrix" => MatrixInv
  BY RoomAssumption, PollsAssumption, MatrixStarts
<1> QED
  BY <1>2, <1>3, <1>4, <1>5, <1>6, <1>7 DEF PollsInv

LEMMA PollsStep ==
  ASSUME PollsInv, Next PROVE PollsInv'
<1>1. connector' = connector
  BY DEF Next
<1>2. CASE connector = "telegram" /\ T!Next
  <2>1. TelegramInv'
    BY <1>2, RoomAssumption, LongPollAssumption, TelegramSteps DEF PollsInv
  <2> QED
    BY <1>1, <1>2, <2>1 DEF PollsInv
<1>3. CASE connector = "zulip" /\ Z!Next
  <2>1. ZulipInv'
    BY <1>3, RoomAssumption, ZulipSteps DEF PollsInv
  <2> QED
    BY <1>1, <1>3, <2>1 DEF PollsInv
<1>4. CASE connector = "matrix" /\ X!Next
  <2>1. MatrixInv'
    BY <1>4, RoomAssumption, LongPollAssumption, PollsAssumption, MatrixSteps DEF PollsInv
  <2> QED
    BY <1>1, <1>4, <2>1 DEF PollsInv
<1>5. CASE connector = "fs" /\ F!Next
  <2>1. FsInv'
    BY <1>5, RoomAssumption, FsSteps DEF PollsInv
  <2> QED
    BY <1>1, <1>5, <2>1 DEF PollsInv
<1>6. CASE connector = "sqlite" /\ Q!Next
  <2>1. SqliteInv'
    BY <1>6, RoomAssumption, SqliteSteps DEF PollsInv
  <2> QED
    BY <1>1, <1>6, <2>1 DEF PollsInv
<1>7. CASE connector = "sqlite_chat" /\ C!ChatNext
  <2>1. ChatInv'
    BY <1>7, RoomAssumption, ChatSteps DEF PollsInv
  <2> QED
    BY <1>1, <1>7, <2>1 DEF PollsInv
<1>8. CASE connector = "github" /\ H!Next
  <2>1. GithubInv'
    BY <1>8, RoomAssumption, GithubSteps DEF PollsInv
  <2> QED
    BY <1>1, <1>8, <2>1 DEF PollsInv
<1>9. CASE connector = "maillist" /\ M!Next
  <2>1. MaillistInv'
    BY <1>9, RoomAssumption, MaillistSteps DEF PollsInv
  <2> QED
    BY <1>1, <1>9, <2>1 DEF PollsInv
<1> QED
  BY <1>2, <1>3, <1>4, <1>5, <1>6, <1>7, <1>8, <1>9 DEF Next, LongStep, LookStep

LEMMA PollsStand ==
  ASSUME PollsInv, UNCHANGED vars PROVE PollsInv'
<1>1. /\ UNCHANGED <<task, queued, posted, window, shown, position, polling, forgotten, restarts, connector>>
      /\ UNCHANGED <<recent, offsetAt, skipped, crowded, registered, fetchedAt, overwritten>>
      /\ UNCHANGED <<connectedAt, unseen, txnCounter, inFlight, usedTxns, swallowed>>
      /\ UNCHANGED <<watching, events, trigger, readFrom, cancelled, rows, poll, sawRows, onlyInserts>>
      /\ UNCHANGED <<signature, last, primaryKey, exists, inPlace>>
      /\ UNCHANGED <<sending, drafts, running, taken, listed, failures>>
  BY DEF vars, taskVars, feedVars, pollVars, longVars, telegramVars, zulipVars, matrixVars, lookVars, fsVars,
    tableVars, sqliteVars, chatVars, mailVars
<1>2. UNCHANGED RoomInv /\ UNCHANGED Live /\ UNCHANGED LastSeen
  BY <1>1 DEF RoomInv, Live, LastSeen
<1>3. UNCHANGED WaitInv
  BY <1>1, <1>2 DEF WaitInv
<1>4. UNCHANGED TelegramInv
  <2>1. UNCHANGED T!LastPending
    BY <1>1 DEF T!LastPending, T!Lower
  <2> QED
    BY <1>1, <1>2, <1>3, <2>1 DEF TelegramInv, T!NotFetched
<1>5. UNCHANGED ZulipInv
  BY <1>1, <1>2, <1>3 DEF ZulipInv, None
<1>6. UNCHANGED MatrixInv
  BY <1>1, <1>2, <1>3 DEF MatrixInv, TxnsAreFresh
<1>7. UNCHANGED FsInv
  BY <1>1, <1>2 DEF FsInv, None
<1>8. UNCHANGED TableInv
  BY <1>1, <1>2 DEF TableInv
<1>9. UNCHANGED SignedInTime /\ UNCHANGED ReplacedInPlace
  BY <1>1, <1>2 DEF SignedInTime, ReplacedInPlace
<1>10. UNCHANGED SqliteInv /\ UNCHANGED ChatInv
  BY <1>1, <1>2, <1>8, <1>9 DEF SqliteInv, ChatInv, C!KeyIsRowid, C!PrimaryKeys, C!ChatDefault
<1>11. UNCHANGED ListingInv /\ UNCHANGED SendsInv
  BY <1>1, <1>2 DEF ListingInv, SendsInv, M!SendStates
<1>12. UNCHANGED GithubInv /\ UNCHANGED MaillistInv
  BY <1>1, <1>11 DEF GithubInv, MaillistInv
<1> QED
  BY <1>1, <1>4, <1>5, <1>6, <1>7, <1>10, <1>12 DEF PollsInv

LEMMA PollsHold == Spec => []PollsInv
<1>1. Init => PollsInv
  BY PollsStart
<1>2. PollsInv /\ [Next]_vars => PollsInv'
  BY PollsStep, PollsStand
<1> QED
  BY <1>1, <1>2, PTL DEF Spec

-----------------------------------------------------------------------------
\* What is written in a room has its type.
LEMMA RoomHasTypes ==
  ASSUME RoomInv
  PROVE  T!RoomTypes /\ Z!RoomTypes /\ X!RoomTypes /\ F!RoomTypes /\ Q!RoomTypes /\ C!RoomTypes /\ H!RoomTypes /\ M!RoomTypes
BY DEF RoomInv, Kinds, TaskStates, T!RoomTypes, Z!RoomTypes, X!RoomTypes, F!RoomTypes, Q!RoomTypes, C!RoomTypes,
  H!RoomTypes, M!RoomTypes, T!TaskStates, Z!TaskStates, X!TaskStates, F!TaskStates, Q!TaskStates, C!TaskStates,
  H!TaskStates, M!TaskStates

\* A table of the posts so far is one of those that can be.
LEMMA TablesFit ==
  ASSUME RoomAssumption, NEW n \in Nat, n <= MaxPosted, NEW t \in Tables(n)
  PROVE  t \in UNION {[D -> 1 .. MaxPosted] : D \in SUBSET (1 .. MaxPosted)}
<1>1. DOMAIN t \in SUBSET (1 .. MaxPosted) /\ t \in [DOMAIN t -> 1 .. n]
  BY TableIs
<1>2. 1 .. n \subseteq 1 .. MaxPosted
  BY DEF RoomAssumption
<1>3. t \in [DOMAIN t -> 1 .. MaxPosted]
  BY <1>1, <1>2
<1> QED
  BY <1>1, <1>3

(***************************************************************************)
(* Every variable of the polling connectors has its type, a request or a   *)
(* read is under way only inside the select! and a send only outside of it *)
(* (spawn_telegram, spawn_zulip, spawn_matrix, spawn_fs, spawn_sqlite,     *)
(* spawn_sqlite_chat, spawn_github and spawn_maillist of room.rs with the  *)
(* connectors' recv()).                                                    *)
(***************************************************************************)
THEOREM PollConnectorTypes == Spec => []TypeOK
<1>1. PollsInv /\ connector \in Connectors => TypeOK
  <2> SUFFICES ASSUME PollsInv, connector \in Connectors PROVE TypeOK
    OBVIOUS
  <2>1. ASSUME TelegramInv PROVE T!TypeOK
    <3>1. WaitInv /\ RoomInv /\ position \in Nat /\ forgotten \in Nat
      BY <2>1 DEF TelegramInv, WaitInv, RoomInv
    <3> QED
      BY <2>1, <3>1, RoomHasTypes DEF TelegramInv, WaitInv, T!TypeOK, T!PollTypes
  <2>2. ASSUME ZulipInv PROVE Z!TypeOK
    <3>1. WaitInv /\ RoomInv /\ position \in Nat /\ forgotten \in Nat /\ fetchedAt \in Nat
      BY <2>2 DEF ZulipInv, WaitInv, RoomInv
    <3>2. registered \in 0 .. Z!None
      <4>1. Len(posted) \in Nat /\ Len(posted) <= MaxPosted /\ MaxPosted \in Nat
        BY <3>1, RoomAssumption DEF RoomInv
      <4> QED
        BY <2>2, <4>1 DEF ZulipInv, None, Z!None
    <3> QED
      BY <2>2, <3>1, <3>2, RoomHasTypes, ZulipIs DEF ZulipInv, WaitInv, Z!TypeOK, Z!PollTypes
  <2>3. ASSUME MatrixInv PROVE X!TypeOK
    <3>1. WaitInv /\ RoomInv /\ position \in Nat /\ forgotten \in Nat /\ txnCounter \in Nat
      BY <2>3, PollsAssumption DEF MatrixInv, WaitInv, RoomInv
    <3> QED
      BY <2>3, <3>1, RoomHasTypes, MatrixIs DEF MatrixInv, WaitInv, X!TypeOK, X!PollTypes
  <2>4. ASSUME FsInv PROVE F!TypeOK
    <3>1. /\ RoomInv /\ Len(posted) \in Nat /\ Len(posted) <= MaxPosted /\ MaxPosted \in Nat
          /\ events \in Seq(1 .. Len(posted)) /\ trigger \in Nat
      BY <2>4, RoomAssumption DEF FsInv, RoomInv
    <3>2. 1 .. Len(posted) \subseteq Nat
      BY <3>1
    <3>3. events \in Seq(Nat)
      BY <3>1, <3>2, SeqWider
    <3>4. readFrom \in 0 .. None /\ None = F!NoRead
      BY <2>4, <3>1 DEF FsInv, None, F!NoRead
    <3> QED
      BY <2>4, <3>1, <3>3, <3>4, RoomHasTypes DEF FsInv, F!TypeOK
  <2>5. ASSUME TableInv
        PROVE  /\ rows \in UNION {[D -> 1 .. MaxPosted] : D \in SUBSET (1 .. MaxPosted)}
               /\ RoomInv /\ poll \in {"sleeping", "signing", "reading"}
               /\ {signature, last} \subseteq Nat \X Nat
               /\ task = "sending" => poll = "sleeping"
    <3>1. rows \in Tables(Len(posted)) /\ Len(posted) \in Nat /\ Len(posted) <= MaxPosted
      BY <2>5 DEF TableInv, RoomInv
    <3>2. rows \in UNION {[D -> 1 .. MaxPosted] : D \in SUBSET (1 .. MaxPosted)}
      BY <3>1, TablesFit, RoomAssumption
    <3> QED
      BY <2>5, <3>2 DEF TableInv
  <2>6. ASSUME SqliteInv PROVE Q!TypeOK
    BY <2>5, <2>6, RoomHasTypes DEF SqliteInv, Q!TypeOK
  <2>7. ASSUME ChatInv PROVE C!ChatTypeOK
    <3>1. TableInv /\ inPlace \subseteq C!Messages
      BY <2>7, ChatIs DEF ChatInv
    <3>2. C!TypeOK
      BY <2>5, <3>1, RoomHasTypes DEF C!TypeOK
    <3> QED
      BY <2>7, <3>1, <3>2, ChatIs DEF ChatInv, C!ChatTypeOK
  <2>8. ASSUME ListingInv
        PROVE  /\ {rows, sawRows} \subseteq UNION {[D -> 1 .. MaxPosted] : D \in SUBSET (1 .. MaxPosted)}
               /\ RoomInv /\ poll \in {"sleeping", "reading"}
               /\ Cardinality(DOMAIN sawRows) <= Cap
               /\ task = "sending" => poll = "sleeping"
    <3>1. rows \in Tables(Len(posted)) /\ sawRows \in Tables(Len(posted)) /\ Len(posted) \in Nat /\ Len(posted) <= MaxPosted
      BY <2>8 DEF ListingInv, RoomInv
    <3>2. \A t \in {rows, sawRows} : t \in UNION {[D -> 1 .. MaxPosted] : D \in SUBSET (1 .. MaxPosted)}
      BY <3>1, TablesFit, RoomAssumption
    <3> QED
      BY <2>8, <3>2 DEF ListingInv
  <2>9. ASSUME GithubInv PROVE H!TypeOK
    <3>1. ListingInv
      BY <2>9 DEF GithubInv
    <3> QED
      BY <2>8, <3>1, RoomHasTypes, GithubIs DEF H!TypeOK
  <2>10. ASSUME MaillistInv PROVE M!MailTypeOK
    <3>1. ListingInv /\ SendsInv
      BY <2>10 DEF MaillistInv
    <3>2. M!TypeOK
      BY <2>8, <3>1, RoomHasTypes, MaillistIs DEF M!TypeOK
    <3> QED
      BY <3>1, <3>2 DEF SendsInv, M!MailTypeOK
  <2>11. connector \in {"telegram", "zulip", "matrix", "fs", "sqlite", "sqlite_chat", "github", "maillist"}
    BY PollsAssumption
  <2>12. CASE connector = "telegram"
    BY <2>1, <2>12 DEF PollsInv, TypeOK
  <2>13. CASE connector = "zulip"
    BY <2>2, <2>13 DEF PollsInv, TypeOK
  <2>14. CASE connector = "matrix"
    BY <2>3, <2>14 DEF PollsInv, TypeOK
  <2>15. CASE connector = "fs"
    BY <2>4, <2>15 DEF PollsInv, TypeOK
  <2>16. CASE connector = "sqlite"
    BY <2>6, <2>16 DEF PollsInv, TypeOK
  <2>17. CASE connector = "sqlite_chat"
    BY <2>7, <2>17 DEF PollsInv, TypeOK
  <2>18. CASE connector = "github"
    BY <2>9, <2>18 DEF PollsInv, TypeOK
  <2>19. CASE connector = "maillist"
    BY <2>10, <2>19 DEF PollsInv, TypeOK
  <2> QED
    BY <2>11, <2>12, <2>13, <2>14, <2>15, <2>16, <2>17, <2>18, <2>19
<1> QED
  BY <1>1, OneOfThem, PollsHold, PTL

(***************************************************************************)
(* What the server was told to forget, or will not be asked for again, was *)
(* shown, across dropped requests and kills of the daemon, or is in the    *)
(* set of what the connector loses: on Telegram passed over by             *)
(* fetch_initial_offset or crowded out by its own batch, on Zulip          *)
(* overwritten by a later message of its answer or too old for the         *)
(* history, on Matrix left out of a long timeline or older than the first  *)
(* sync.  Each change of a directory is in the last snapshot, or its event *)
(* is to be handled, or an intent dropped the recv() that had taken it.    *)
(***************************************************************************)
THEOREM PollsLoseNothingElse == Spec => []PollsLoseOnlyWhatTheyMay
<1>1. PollsInv => PollsLoseOnlyWhatTheyMay
  <2>1. TelegramInv => T!ForgottenIsAccountedFor
    BY TelegramIs DEF TelegramInv, T!ForgottenIsAccountedFor
  <2>2. ZulipInv => Z!NothingSlipsThrough
    <3> SUFFICES ASSUME ZulipInv, Live
                 PROVE  Plain(posted) \cap 1 .. Z!Higher(position, forgotten)
                          \subseteq Hidden(posted, registered, fetchedAt) \cup shown \cup overwritten
      BY ZulipIs DEF Z!NothingSlipsThrough
    <3>1. position \in Nat /\ forgotten \in Nat /\ forgotten <= position
      BY DEF ZulipInv, WaitInv, RoomInv
    <3>2. Z!Higher(position, forgotten) = position
      BY <3>1, ZulipIs
    <3> QED
      BY <3>2 DEF ZulipInv
  <2>3. MatrixInv => X!NothingSlipsThrough
    BY MatrixIs DEF MatrixInv, Older, X!NothingSlipsThrough
  <2>4. FsInv => F!EachChangeIsFollowedUp
    BY FsIs DEF FsInv
  <2> QED
    BY <2>1, <2>2, <2>3, <2>4 DEF PollsInv, PollsLoseOnlyWhatTheyMay
<1> QED
  BY <1>1, PollsHold, PTL

(***************************************************************************)
(* Across dropped requests and restarts every snapshot is oldest first and *)
(* has nothing twice: on Matrix always, on Zulip but for what connect()    *)
(* got both from the history and from the queue, on Telegram once          *)
(* fetch_initial_offset has found an offset.                               *)
(***************************************************************************)
THEOREM PollWindowsInOrder == Spec => []PollsShowInOrder
<1>1. PollsInv => PollsShowInOrder
  <2>1. RoomInv => DOMAIN window = 1 .. Len(window)
    BY DEF RoomInv
  <2>2. TelegramInv => T!NoReplay
    BY <2>1 DEF TelegramInv, WaitInv, Rises, T!NoReplay, T!StrictlyInOrder
  <2>3. ZulipInv => Z!InOrderAfterConnect
    BY <2>1 DEF ZulipInv, WaitInv, RisesBut, Z!InOrderAfterConnect
  <2>4. MatrixInv => StrictlyInOrder
    BY <2>1 DEF MatrixInv, WaitInv, Rises, StrictlyInOrder
  <2> QED
    BY <2>2, <2>3, <2>4 DEF PollsInv, PollsShowInOrder
<1> QED
  BY <1>1, PollsHold, PTL

(***************************************************************************)
(* What is only added to and looks unchanged is unchanged: an SQLite table *)
(* whose (COUNT, MAX(rowid)) is that of the last snapshot, the first page  *)
(* of an issue's comments and the newest campaigns unless the page is      *)
(* full, and a chat log but for rows that were replaced under a key that   *)
(* is their rowid.  Neither a write between two queries nor a poll that an *)
(* intent cut short hides a row.                                           *)
(***************************************************************************)
THEOREM UnchangedLooksAreUnchanged == Spec => []GrowthIsNeverHidden
<1>1. PollsInv => GrowthIsNeverHidden
  BY RoomAssumption, SqliteGrowth, ChatGrowth, GithubGrowth, MaillistGrowth DEF PollsInv, GrowthIsNeverHidden
<1> QED
  BY <1>1, PollsHold, PTL

(***************************************************************************)
(* Over the first connection the homeserver takes none of Matrix's PUTs    *)
(* for a retry.  The mailing list makes one campaign of an intent at most, *)
(* and leaves a draft only when its send() fails between the two requests. *)
(***************************************************************************)
THEOREM SendsComeToOneMessage == Spec => []SendsAreAccountedFor
<1>1. PollsInv => SendsAreAccountedFor
  <2>1. MatrixInv => X!OneConnectionSwallowsNothing
    BY DEF MatrixInv, TxnsAreFresh, X!OneConnectionSwallowsNothing
  <2>2. MaillistInv => M!SendsAreAccountedFor
    <3> SUFFICES ASSUME SendsInv PROVE M!SendsAreAccountedFor
      BY DEF MaillistInv
    <3>1. drafts + running + listed <= taken
      BY DEF SendsInv
    <3> QED
      BY <3>1 DEF SendsInv, M!SendsAreAccountedFor
  <2> QED
    BY <2>1, <2>2 DEF PollsInv, SendsAreAccountedFor
<1> QED
  BY <1>1, PollsHold, PTL

(***************************************************************************)
(* A later snapshot of the directory never shows an older one: a read that *)
(* was dropped leaves nothing behind that could be shown after a newer one *)
(* (FsTransport::recv and its blocking reads).                             *)
(***************************************************************************)
THEOREM SnapshotsOnlyGoForward == Spec => FsNeverGoesBack
<1>1. PollsInv /\ [Next]_vars => [connector = "fs" => F!LastShown' >= F!LastShown]_vars
  <2> SUFFICES ASSUME PollsInv, Next, connector = "fs" PROVE F!LastShown' >= F!LastShown
    OBVIOUS
  <2>1. FsInv /\ F!Next
    BY DEF PollsInv, Next, LongStep, LookStep
  <2>2. F!LastShown = LastSeen /\ F!LastShown' = LastSeen' /\ F!NoRead = None
    BY DEF F!LastShown, LastSeen, F!NoRead, None
  <2>3. /\ posted \in Seq(Kinds) /\ Len(posted) \in Nat /\ LastSeen \in Nat
        /\ readFrom \in 0 .. Len(posted) \cup {None}
        /\ readFrom # None => LastSeen <= readFrom
        /\ task = "connecting" /\ watching => readFrom # None
    BY <2>1 DEF FsInv, RoomInv
  <2>4. CASE UNCHANGED window
    BY <2>2, <2>3, <2>4 DEF LastSeen
  <2>5. ASSUME readFrom # None, NEW v \in readFrom .. Len(posted), window' = <<v>>
        PROVE  F!LastShown' >= F!LastShown
    <3>1. readFrom \in Nat /\ v \in Nat /\ LastSeen <= v
      BY <2>3, <2>5
    <3>2. LastSeen' = v
      BY <2>5, <3>1, OneShown DEF LastSeen
    <3> QED
      BY <2>2, <2>3, <3>1, <3>2
  <2>6. CASE F!FinishFirstRead
    <3>1. readFrom # None /\ \E v \in readFrom .. Len(posted) : window' = <<v>>
      BY <2>3, <2>6 DEF F!FinishFirstRead, F!Connected, F!Show
    <3> QED
      BY <2>5, <3>1
  <2>7. CASE F!FinishRead
    <3>1. readFrom # None /\ \E v \in readFrom .. Len(posted) : window' = <<v>>
      BY <2>2, <2>7 DEF F!FinishRead, F!Show
    <3> QED
      BY <2>5, <3>1
  <2>8. CASE ~ F!FinishFirstRead /\ ~ F!FinishRead
    <3>1. UNCHANGED window
      BY <2>1, <2>8 DEF F!Next, F!FsChange, F!Post, F!Watch, F!TakeEvent, F!Cancel, F!TakeIntent, F!SubmitIntent,
        F!SendReturns, F!TaskEnds, F!feedVars, F!taskVars
    <3> QED
      BY <2>4, <3>1
  <2> QED
    BY <2>6, <2>7, <2>8
<1> QED
  BY <1>1, PollsHold, PTL DEF Spec, FsNeverGoesBack

-----------------------------------------------------------------------------
(* Timestamps *)

YearLengths == [y \in Nat |-> YearLength(y)]
MonthLengths(y) == [k \in Nat |-> MonthLength(y, k)]

\* What the mailing list adds up, a sum like any other.
LEMMA YearsAddUp ==
  ASSUME NEW S \in SUBSET Nat, IsFiniteSet(S)
  PROVE  MapThenSumSet(YearLength, S) = Total(YearLengths, S)
<1> DEFINE f == YearLengths
           Sums(g) == g = [s \in SUBSET S |-> IF s = {} THEN 0 ELSE YearLength(AnyOf(s)) + g[s \ {AnyOf(s)}]]
           h == CHOOSE g : Sums(g)
<1>1. \A s \in SUBSET S : s # {} => f[AnyOf(s)] = YearLength(AnyOf(s))
  BY AnyOfIs DEF YearLengths
<1> HIDE DEF f
<1>2. ASSUME NEW g PROVE Sums(g) <=> AddsUp(f, SUBSET S, g)
  <2> DEFINE a(s) == IF s = {} THEN 0 ELSE YearLength(AnyOf(s)) + g[s \ {AnyOf(s)}]
             b(s) == IF s = {} THEN 0 ELSE f[AnyOf(s)] + g[s \ {AnyOf(s)}]
  <2>1. \A s \in SUBSET S : a(s) = b(s)
    BY <1>1
  <2>2. Sums(g) <=> g = [s \in SUBSET S |-> a(s)]
    OBVIOUS
  <2>3. AddsUp(f, SUBSET S, g) <=> g = [s \in SUBSET S |-> b(s)]
    BY DEF AddsUp
  <2> HIDE DEF a, b, Sums
  <2> QED
    BY <2>1, <2>2, <2>3
<1>3. PICK g : AddsUp(f, SUBSET S, g) /\ Total(f, S) = g[S]
  BY TotalIs
<1>4. MapThenSumSet(YearLength, S) = h[S]
  BY DEF MapThenSumSet, MapThenFoldSet, AnyOf
<1> HIDE DEF Sums
<1>5. Sums(h)
  BY <1>2, <1>3
<1>6. h[S] = g[S]
  <2>1. AddsUp(f, SUBSET S, h) /\ S \in SUBSET S
    BY <1>2, <1>5
  <2> HIDE DEF h
  <2> QED
    BY <1>3, <2>1, SumsAgree
<1> QED
  BY <1>3, <1>4, <1>6 DEF f

LEMMA MonthsAddUp ==
  ASSUME NEW year, NEW S \in SUBSET Nat, IsFiniteSet(S)
  PROVE  MapThenSumSet(LAMBDA k : MonthLength(year, k), S) = Total(MonthLengths(year), S)
<1> DEFINE f == MonthLengths(year)
           Sums(g) == g = [s \in SUBSET S |-> IF s = {} THEN 0 ELSE MonthLength(year, AnyOf(s)) + g[s \ {AnyOf(s)}]]
           h == CHOOSE g : Sums(g)
<1>1. \A s \in SUBSET S : s # {} => f[AnyOf(s)] = MonthLength(year, AnyOf(s))
  BY AnyOfIs DEF MonthLengths
<1> HIDE DEF f
<1>2. ASSUME NEW g PROVE Sums(g) <=> AddsUp(f, SUBSET S, g)
  <2> DEFINE a(s) == IF s = {} THEN 0 ELSE MonthLength(year, AnyOf(s)) + g[s \ {AnyOf(s)}]
             b(s) == IF s = {} THEN 0 ELSE f[AnyOf(s)] + g[s \ {AnyOf(s)}]
  <2>1. \A s \in SUBSET S : a(s) = b(s)
    BY <1>1
  <2>2. Sums(g) <=> g = [s \in SUBSET S |-> a(s)]
    OBVIOUS
  <2>3. AddsUp(f, SUBSET S, g) <=> g = [s \in SUBSET S |-> b(s)]
    BY DEF AddsUp
  <2> HIDE DEF a, b, Sums
  <2> QED
    BY <2>1, <2>2, <2>3
<1>3. PICK g : AddsUp(f, SUBSET S, g) /\ Total(f, S) = g[S]
  BY TotalIs
<1>4. MapThenSumSet(LAMBDA k : MonthLength(year, k), S) = h[S]
  BY DEF MapThenSumSet, MapThenFoldSet, AnyOf
<1> HIDE DEF Sums
<1>5. Sums(h)
  BY <1>2, <1>3
<1>6. h[S] = g[S]
  <2>1. AddsUp(f, SUBSET S, h) /\ S \in SUBSET S
    BY <1>2, <1>5
  <2> HIDE DEF h
  <2> QED
    BY <1>3, <2>1, SumsAgree
<1> QED
  BY <1>3, <1>4, <1>6 DEF f

\* One more at the end of an interval.
LEMMA TotalUpTo ==
  ASSUME NEW f, NEW m \in Nat, NEW n \in Nat, m <= n + 1, \A i \in m .. n + 1 : f[i] \in Nat
  PROVE  Total(f, m .. n + 1) = Total(f, m .. n) + f[n + 1]
<1> DEFINE S == m .. n + 1
<1>1. IsFiniteSet(S) /\ S \ {n + 1} = m .. n /\ n + 1 \in S /\ \A i \in S : f[i] \in Nat
  BY FS_Interval
<1> HIDE DEF S
<1>2. Total(f, S) = f[n + 1] + Total(f, S \ {n + 1}) /\ Total(f, S \ {n + 1}) \in Nat
  BY <1>1, TotalWithout
<1>3. f[n + 1] \in Nat /\ \A a, b \in Nat : a + b = b + a
  BY <1>1
<1>4. Total(f, S) = Total(f, m .. n) + f[n + 1]
  BY <1>1, <1>2, <1>3
<1> QED
  BY <1>4 DEF S

\* The leap years up to y.
Leaps(y) == y \div 4 - y \div 100 + y \div 400

LEMMA LeapsAre ==
  ASSUME NEW y \in Nat, y > 0
  PROVE  Leaps(y) = Leaps(y - 1) + (IF IsLeap(y) THEN 1 ELSE 0) /\ Leaps(y) \in Int /\ Leaps(y - 1) \in Int
<1>1. y \div 4 = (y - 1) \div 4 + (IF y % 4 = 0 THEN 1 ELSE 0)
  OBVIOUS
<1>2. y \div 100 = (y - 1) \div 100 + (IF y % 100 = 0 THEN 1 ELSE 0)
  OBVIOUS
<1>3. y \div 400 = (y - 1) \div 400 + (IF y % 400 = 0 THEN 1 ELSE 0)
  OBVIOUS
<1>4. (y % 100 = 0 => y % 4 = 0) /\ (y % 400 = 0 => y % 100 = 0)
  OBVIOUS
<1> QED
  BY <1>1, <1>2, <1>3, <1>4 DEF Leaps, IsLeap

LEMMA LengthsAre ==
  /\ \A y : YearLength(y) \in Nat
  /\ \A y : \A m \in 1 .. 12 : MonthLength(y, m) \in Nat
BY DEF YearLength, MonthLength, DaysInMonth

\* The full years.
LEMMA FullYears ==
  ASSUME NEW y \in Nat, y >= 1970
  PROVE  MapThenSumSet(YearLength, 1970 .. y - 1) = 365 * (y - 1970) + Leaps(y - 1) - 477
<1> DEFINE f == YearLengths
           Ns == {n \in Nat : Total(f, 1970 .. 1969 + n) = 365 * n + Leaps(1969 + n) - 477}
<1>1. 0 \in Ns
  <2>1. 1970 .. 1969 + 0 = {}
    OBVIOUS
  <2>2. Leaps(1969 + 0) = 477
    BY DEF Leaps
  <2> QED
    BY <2>1, <2>2, TotalOfNone
<1>2. ASSUME NEW n \in Nat, n \in Ns PROVE n + 1 \in Ns
  <2>1. \A i \in 1970 .. (1969 + n) + 1 : f[i] \in Nat
    BY LengthsAre DEF YearLengths
  <2>2. f[(1969 + n) + 1] = YearLength((1969 + n) + 1)
    BY DEF YearLengths
  <2> HIDE DEF f
  <2>3. Total(f, 1970 .. (1969 + n) + 1) = Total(f, 1970 .. 1969 + n) + f[(1969 + n) + 1]
    BY <2>1, TotalUpTo
  <2> DEFINE x == (1969 + n) + 1
  <2>4. x \in Nat /\ x > 0 /\ x - 1 = 1969 + n /\ x = 1969 + (n + 1)
    OBVIOUS
  <2> HIDE DEF x
  <2>5. Leaps(x) = Leaps(1969 + n) + (IF IsLeap(x) THEN 1 ELSE 0) /\ Leaps(x) \in Int /\ Leaps(1969 + n) \in Int
    BY <2>4, LeapsAre
  <2>6. YearLength(x) = 365 + (IF IsLeap(x) THEN 1 ELSE 0)
    BY DEF YearLength
  <2>7. Total(f, 1970 .. x) = 365 * n + Leaps(1969 + n) - 477 + YearLength(x)
    BY <1>2, <2>2, <2>3 DEF x
  <2>8. Total(f, 1970 .. x) = 365 * (n + 1) + Leaps(x) - 477
    BY <2>5, <2>6, <2>7
  <2> QED
    BY <2>4, <2>8
<1> HIDE DEF Ns
<1>3. y - 1970 \in Ns
  BY <1>1, <1>2, Induction
<1>4. 1969 + (y - 1970) = y - 1
  OBVIOUS
<1>5. IsFiniteSet(1970 .. y - 1) /\ 1970 .. y - 1 \in SUBSET Nat
  BY FS_Interval
<1>6. MapThenSumSet(YearLength, 1970 .. y - 1) = Total(f, 1970 .. y - 1)
  BY <1>5, YearsAddUp
<1> QED
  BY <1>3, <1>4, <1>6 DEF Ns

\* The days of the months before month m, if it is no leap year.
DaysBefore == <<0, 31, 59, 90, 120, 151, 181, 212, 243, 273, 304, 334>>

LEMMA OneMonthMore ==
  ASSUME NEW m \in 1 .. 11
  PROVE  DaysBefore[m + 1] = DaysBefore[m] + DaysInMonth[m] /\ DaysBefore[m] \in Nat /\ DaysInMonth[m] \in Nat
<1>1. \/ m = 1 \/ m = 2 \/ m = 3 \/ m = 4 \/ m = 5 \/ m = 6
      \/ m = 7 \/ m = 8 \/ m = 9 \/ m = 10 \/ m = 11
  OBVIOUS
<1> QED
  BY <1>1 DEF DaysBefore, DaysInMonth

\* The full months, as the mailing list adds them up.
MonthsBefore(y, m) == MapThenSumSet(LAMBDA k : MonthLength(y, k), 1 .. m - 1)

LEMMA FullMonths ==
  ASSUME NEW y \in Nat, NEW m \in 1 .. 12
  PROVE  MonthsBefore(y, m) = DaysBefore[m] + (IF m > 2 /\ IsLeap(y) THEN 1 ELSE 0)
<1> DEFINE f == MonthLengths(y)
           Ns == {n \in Nat : n <= 11 => Total(f, 1 .. n) = DaysBefore[n + 1] + (IF n > 1 /\ IsLeap(y) THEN 1 ELSE 0)}
<1>1. 0 \in Ns
  <2>1. 1 .. 0 = {} /\ DaysBefore[0 + 1] = 0
    BY DEF DaysBefore
  <2> QED
    BY <2>1, TotalOfNone
<1>2. ASSUME NEW n \in Nat, n \in Ns PROVE n + 1 \in Ns
  <2> SUFFICES ASSUME n + 1 <= 11
               PROVE  Total(f, 1 .. n + 1) = DaysBefore[(n + 1) + 1] + (IF n + 1 > 1 /\ IsLeap(y) THEN 1 ELSE 0)
    OBVIOUS
  <2>1. \A i \in 1 .. n + 1 : f[i] \in Nat
    BY LengthsAre DEF MonthLengths
  <2>2. f[n + 1] = DaysInMonth[n + 1] + (IF n + 1 = 2 /\ IsLeap(y) THEN 1 ELSE 0)
    BY DEF MonthLengths, MonthLength
  <2>3. Total(f, 1 .. n) = DaysBefore[n + 1] + (IF n > 1 /\ IsLeap(y) THEN 1 ELSE 0)
    BY <1>2
  <2> HIDE DEF f, Ns
  <2>4. Total(f, 1 .. n + 1) = Total(f, 1 .. n) + f[n + 1]
    BY <2>1, TotalUpTo
  <2>5. /\ DaysBefore[(n + 1) + 1] = DaysBefore[n + 1] + DaysInMonth[n + 1]
        /\ DaysBefore[n + 1] \in Nat /\ DaysInMonth[n + 1] \in Nat
    <3>1. n + 1 \in 1 .. 11
      OBVIOUS
    <3> QED
      BY <3>1, OneMonthMore
  <2> QED
    BY <2>2, <2>3, <2>4, <2>5
<1>3. m - 1 \in Ns
  <2> HIDE DEF Ns
  <2> QED
    BY <1>1, <1>2, Induction
<1>4. Total(f, 1 .. m - 1) = DaysBefore[m] + (IF m > 2 /\ IsLeap(y) THEN 1 ELSE 0)
  <2>1. m - 1 <= 11 /\ (m - 1) + 1 = m /\ (m - 1 > 1 <=> m > 2)
    OBVIOUS
  <2> HIDE DEF f
  <2> QED
    BY <1>3, <2>1
<1>5. IsFiniteSet(1 .. m - 1) /\ 1 .. m - 1 \in SUBSET Nat
  BY FS_Interval
<1>6. MonthsBefore(y, m) = Total(f, 1 .. m - 1)
  BY <1>5, MonthsAddUp DEF MonthsBefore
<1> QED
  BY <1>4, <1>6

\* What both algorithms come to: the number of the day since 1970.
DayNumber(y, m, d) ==
  365 * (y - 1970) + Leaps(y - 1) - 477 + DaysBefore[m] + (IF m > 2 /\ IsLeap(y) THEN 1 ELSE 0) + d - 1

LEMMA EpochIs ==
  ASSUME NEW y \in Nat, y >= 1970, NEW m \in 1 .. 12, NEW d \in Nat
  PROVE  DaysFromEpoch(y, m, d) = DayNumber(y, m, d)
<1>1. MapThenSumSet(YearLength, 1970 .. y - 1) = 365 * (y - 1970) + Leaps(y - 1) - 477
  BY FullYears
<1>2. MonthsBefore(y, m) = DaysBefore[m] + (IF m > 2 /\ IsLeap(y) THEN 1 ELSE 0)
  BY FullMonths
<1>3. DaysFromEpoch(y, m, d) = MapThenSumSet(YearLength, 1970 .. y - 1) + MonthsBefore(y, m) + d - 1
  BY DEF DaysFromEpoch, MonthsBefore
<1>4. Leaps(y - 1) \in Int /\ DaysBefore[m] \in Nat
  BY LeapsAre DEF DaysBefore
<1> QED
  BY <1>1, <1>2, <1>3, <1>4 DEF DayNumber

\* GitHub's months, which start in March.
LEMMA MonthsFromMarch ==
  ASSUME NEW m \in 1 .. 12
  PROVE  /\ m > 2 => (153 * (m - 3) + 2) \div 5 = DaysBefore[m] - 59
         /\ m <= 2 => (153 * (m + 9) + 2) \div 5 = DaysBefore[m] + 306
         /\ DaysBefore[m] \in Nat
<1>1. \/ m = 1 \/ m = 2 \/ m = 3 \/ m = 4 \/ m = 5 \/ m = 6
      \/ m = 7 \/ m = 8 \/ m = 9 \/ m = 10 \/ m = 11 \/ m = 12
  OBVIOUS
<1> QED
  BY <1>1 DEF DaysBefore

\* Eras of 400 years count like years and their leap days.
LEMMA CivilIs ==
  ASSUME NEW y \in Nat, y >= 1970, NEW m \in 1 .. 12, NEW d \in Nat
  PROVE  DaysFromCivil(y, m, d) = DayNumber(y, m, d)
<1> DEFINE year == IF m <= 2 THEN y - 1 ELSE y
           era == year \div 400
           yoe == year - era * 400
           doy == (153 * (IF m > 2 THEN m - 3 ELSE m + 9) + 2) \div 5 + d - 1
<1>1. DaysFromCivil(y, m, d) = era * 146097 + (yoe * 365 + yoe \div 4 - yoe \div 100 + doy) - 719468
  BY DEF DaysFromCivil
<1>2. year \in Nat /\ y - 1 \in Nat
  OBVIOUS
<1>3. era * 146097 + (yoe * 365 + yoe \div 4 - yoe \div 100) = 365 * year + Leaps(year)
  <2> HIDE DEF year
  <2>1. yoe \div 4 = year \div 4 - era * 100
    BY <1>2
  <2>2. yoe \div 100 = year \div 100 - era * 4
    BY <1>2
  <2> QED
    BY <1>2, <2>1, <2>2 DEF Leaps
<1>4. doy \in Int /\ (m > 2 => doy = DaysBefore[m] - 59 + d - 1) /\ (m <= 2 => doy = DaysBefore[m] + 306 + d - 1)
      /\ DaysBefore[m] \in Nat
  BY MonthsFromMarch
<1>5. era \in Int /\ yoe \in Int /\ yoe \div 4 \in Int /\ yoe \div 100 \in Int
  BY <1>2
<1>6. Leaps(y) = Leaps(y - 1) + (IF IsLeap(y) THEN 1 ELSE 0) /\ Leaps(y) \in Int /\ Leaps(y - 1) \in Int
  BY LeapsAre
<1> HIDE DEF era, yoe, doy
<1>7. DaysFromCivil(y, m, d) = 365 * year + Leaps(year) + doy - 719468
  BY <1>1, <1>2, <1>3, <1>4, <1>5, <1>6
<1>8. CASE m > 2
  BY <1>4, <1>6, <1>7, <1>8 DEF DayNumber
<1>9. CASE m <= 2
  BY <1>4, <1>6, <1>7, <1>9 DEF DayNumber
<1> QED
  BY <1>8, <1>9

\* The day after.
LEMMA NextDay ==
  ASSUME NEW y \in Nat, y >= 1970, NEW m \in 1 .. 12, NEW d \in 1 .. MonthLength(y, m)
  PROVE  LET next == DayAfter(y, m, d)
         IN  /\ next[1] \in Nat /\ next[1] >= 1970 /\ next[2] \in 1 .. 12 /\ next[3] \in Nat
             /\ DayNumber(next[1], next[2], next[3]) = DayNumber(y, m, d) + 1
             /\ DayNumber(y, m, d) \in Int
<1>1. /\ MonthLength(y, m) = DaysInMonth[m] + (IF m = 2 /\ IsLeap(y) THEN 1 ELSE 0)
      /\ MonthLength(y, m) \in Nat /\ DaysInMonth[m] \in Nat /\ DaysBefore[m] \in Nat
  BY DEF MonthLength, DaysInMonth, DaysBefore
<1>2. /\ Leaps(y) = Leaps(y - 1) + (IF IsLeap(y) THEN 1 ELSE 0)
      /\ Leaps(y) \in Int /\ Leaps(y - 1) \in Int
  BY LeapsAre
<1>3. DayNumber(y, m, d) \in Int
  BY <1>1, <1>2 DEF DayNumber
<1>4. CASE d < MonthLength(y, m)
  <2>1. DayAfter(y, m, d) = <<y, m, d + 1>>
    BY <1>4 DEF DayAfter
  <2>2. DayNumber(y, m, d + 1) = DayNumber(y, m, d) + 1
    BY <1>1, <1>2 DEF DayNumber
  <2> QED
    BY <1>1, <1>3, <2>1, <2>2
<1>5. CASE d = MonthLength(y, m) /\ m < 12
  <2>1. DayAfter(y, m, d) = <<y, m + 1, 1>>
    BY <1>1, <1>5 DEF DayAfter
  <2>2. DaysBefore[m + 1] = DaysBefore[m] + DaysInMonth[m]
    BY <1>5, OneMonthMore
  <2>3. DayNumber(y, m + 1, 1) = DayNumber(y, m, d) + 1
    BY <1>1, <1>2, <1>5, <2>2 DEF DayNumber
  <2> QED
    BY <1>3, <1>5, <2>1, <2>3
<1>6. CASE d = MonthLength(y, m) /\ m = 12
  <2>1. DayAfter(y, m, d) = <<y + 1, 1, 1>>
    BY <1>1, <1>6 DEF DayAfter
  <2>2. DaysBefore[1] = 0 /\ DaysBefore[12] = 334 /\ d = 31
    BY <1>6 DEF DaysBefore, MonthLength, DaysInMonth
  <2>3. (y + 1) - 1 = y
    OBVIOUS
  <2>4. DayNumber(y + 1, 1, 1) = DayNumber(y, m, d) + 1
    BY <1>2, <1>6, <2>2, <2>3 DEF DayNumber
  <2> QED
    BY <1>3, <1>6, <2>1, <2>4
<1> QED
  BY <1>1, <1>4, <1>5, <1>6

LEMMA CalendarIs == CalendarIsKept
<1> SUFFICES ASSUME NEW y \in Years, NEW m \in 1 .. 12, NEW d \in 1 .. MonthLength(y, m)
             PROVE  LET today == DaysFromEpoch(y, m, d)
                        next == DayAfter(y, m, d)
                        tomorrow == DaysFromEpoch(next[1], next[2], next[3])
                    IN  /\ DaysFromCivil(y, m, d) = today
                        /\ tomorrow = today + 1
                        /\ \A offset \in {-7 * 60, 0, 5 * 60 + 30} :
                             MinutesOf(tomorrow, 0, 30, offset + 60) = MinutesOf(today, 23, 30, offset)
  BY DEF CalendarIsKept
<1> DEFINE today == DaysFromEpoch(y, m, d)
           next == DayAfter(y, m, d)
           tomorrow == DaysFromEpoch(next[1], next[2], next[3])
<1>1. y \in Nat /\ y >= 1970 /\ d \in Nat
  BY YearsAssumption, LengthsAre
<1>2. /\ next[1] \in Nat /\ next[1] >= 1970 /\ next[2] \in 1 .. 12 /\ next[3] \in Nat
      /\ DayNumber(next[1], next[2], next[3]) = DayNumber(y, m, d) + 1
      /\ DayNumber(y, m, d) \in Int
  BY <1>1, NextDay
<1> HIDE DEF next
<1>3. today = DayNumber(y, m, d) /\ DaysFromCivil(y, m, d) = DayNumber(y, m, d)
  BY <1>1, EpochIs, CivilIs
<1>4. tomorrow = DayNumber(next[1], next[2], next[3])
  BY <1>2, EpochIs
<1> HIDE DEF today, tomorrow
<1>5. today \in Int /\ tomorrow = today + 1 /\ DaysFromCivil(y, m, d) = today
  BY <1>2, <1>3, <1>4
<1>6. \A offset \in Int : MinutesOf(tomorrow, 0, 30, offset + 60) = MinutesOf(today, 23, 30, offset)
  BY <1>5 DEF MinutesOf
<1>7. {-7 * 60, 0, 5 * 60 + 30} \subseteq Int
  OBVIOUS
<1> QED
  BY <1>5, <1>6, <1>7 DEF today, tomorrow, next

\* Both algorithms read timestamps by the calendar, in whatever years and with
\* whatever offset from UTC.
THEOREM TimestampsAreDays == Spec => []DatesAreDays
<1>1. DatesAreDays
  BY CalendarIs DEF DatesAreDays
<1> QED
  BY <1>1, PTL

=============================================================================
