SPECIFICATION Spec
CONSTANTS
  Connectors = {"zulip"}
  Cap = 2
  HistoryLimit = 2
  AnswerLimit = 3
  TimelineLimit = 2
  MaxPosted = 2
  MaxQueued = 0
  MaxTxns = 0
  MaxWrites = 3
  MaxRestarts = 0
  Years = {1970}
INVARIANTS
  ZulipShowsEachEvent
\* The task may have ended with everything posted.
CHECK_DEADLOCK FALSE
