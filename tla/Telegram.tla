------------------------------ MODULE Telegram ------------------------------
(***************************************************************************)
(* The Telegram connector.  An update_id is a position; update_offset is   *)
(* `position + 1`.  The Bot API keeps updates until a getUpdates with a    *)
(* higher offset, and gives the oldest AnswerLimit (100) of them.  "other" stands *)
(* for updates of other chats and messages without text.                   *)
(***************************************************************************)
EXTENDS LongPoll

VARIABLES
  recent,   \* connect(): initial_messages, or <<0>> before they are fetched
  offsetAt, \* the position fetch_initial_offset found
  skipped,  \* messages its offset passed over that the history lacks
  crowded   \* messages a batch pushed out of the window it had just entered

telegramVars == <<recent, offsetAt, skipped, crowded>>
vars == <<taskVars, feedVars, pollVars, telegramVars>>

NotFetched == <<0>>

Init ==
  /\ PollInit
  /\ recent = NotFetched
  /\ offsetAt = 0
  /\ skipped = {}
  /\ crowded = {}

-----------------------------------------------------------------------------
\* The last of the updates a getUpdates without offset answers.
LastPending == forgotten + Lower(AnswerLimit, Len(posted) - forgotten)

\* The offset that is one past them; 0 when there are none, or the API says no.
InitialOffsets == {0} \cup IF forgotten < Len(posted) THEN {LastPending} ELSE {}

FirstOf(s) == SubSeq(s, 1, Lower(Cap, Len(s)))

\* fetch_recent_messages: the first Cap plain messages of the pending updates,
\* or none when the API says no.
FetchRecent ==
  /\ task = "connecting"
  /\ recent = NotFetched
  /\ recent' \in {FirstOf(PlainFrom(forgotten + 1, LastPending)), <<>>}
  /\ UNCHANGED <<taskVars, feedVars, pollVars, offsetAt, skipped, crowded>>

\* fetch_initial_offset is a second getUpdates.
\* connect() returns with it.
FetchOffset ==
  /\ recent # NotFetched
  /\ Connected(recent)
  /\ \E p \in InitialOffsets :
       /\ position' = p
       /\ offsetAt' = p
       /\ skipped' = skipped \cup ((Messages \cap 1 .. p) \ (shown \cup ToSet(recent)))
  /\ recent' = NotFetched
  /\ UNCHANGED <<polling, forgotten, restarts, crowded>>

\* recv() got updates; the offset moves past each of them.  The answer may
\* have been under way while more was posted.
GetUpdates ==
  \E k \in position + 1 .. Len(posted) :
    LET first == Higher(position, forgotten)
        batch == PlainFrom(first + 1, k)
    IN
    /\ first < k /\ k <= first + AnswerLimit
    /\ Answer(k, batch)
    /\ crowded' = crowded \cup ToSet(AllBut(batch, Cap))
    /\ UNCHANGED <<recent, offsetAt, skipped>>

TelegramRestart ==
  /\ Restart
  /\ recent' = NotFetched
  /\ UNCHANGED <<offsetAt, skipped, crowded>>

Next ==
  \/ PollStep /\ UNCHANGED telegramVars
  \/ FetchRecent
  \/ FetchOffset
  \/ GetUpdates
  \/ SendDone /\ UNCHANGED telegramVars
  \/ TelegramRestart

Spec == Init /\ [][Next]_vars

-----------------------------------------------------------------------------
TypeOK ==
  /\ PollTypes
  /\ recent \in Seq(Nat)
  /\ offsetAt \in Nat
  /\ skipped \in SUBSET Nat
  /\ crowded \in SUBSET Nat
  /\ task = "receiving" \/ ~polling
  /\ recent = NotFetched \/ task \in {"connecting", "ended"}

\* Whatever intents cancel and whenever the daemon is killed, what Telegram
\* was told to forget has been shown, or was passed over while connecting, or
\* was crowded out by its own batch.
ForgottenIsAccountedFor ==
  Messages \cap 1 .. forgotten \subseteq shown \cup skipped \cup crowded

\* The window is oldest first and has nothing twice, unless the initial offset
\* could not be fetched and history is replayed.
NoReplay ==
  offsetAt > 0 => StrictlyInOrder

=============================================================================
