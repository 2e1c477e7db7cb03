SPECIFICATION Spec
CONSTANTS
  Connectors = {"matrix"}
  Cap = 2
  HistoryLimit = 2
  AnswerLimit = 3
  TimelineLimit = 2
  MaxPosted = 2
  MaxQueued = 2
  MaxTxns = 2
  MaxWrites = 3
  MaxRestarts = 1
  Years = {1970}
INVARIANTS
  MatrixSendsPost
\* The task may have ended with everything posted.
CHECK_DEADLOCK FALSE
