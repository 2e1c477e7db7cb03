SPECIFICATION FairSpec
CONSTANTS
  Connectors = {"telegram", "zulip", "matrix", "fs", "sqlite", "sqlite_chat", "github", "maillist"}
  Cap = 2
  HistoryLimit = 2
  AnswerLimit = 3
  TimelineLimit = 2
  MaxPosted = 4
  MaxQueued = 1
  MaxTxns = 2
  MaxWrites = 3
  MaxRestarts = 1
  Years = {1970, 1971, 1972, 1999, 2000, 2001, 2023, 2024, 2099, 2100}
INVARIANTS
  TypeOK
  PollsLoseOnlyWhatTheyMay
  PollsShowInOrder
  GrowthIsNeverHidden
  SendsAreAccountedFor
  DatesAreDays
PROPERTIES
  FsNeverGoesBack
  ChangesAreShown
  PostsAreHandled
\* The task may have ended with everything posted.
CHECK_DEADLOCK FALSE
