SPECIFICATION FairSpec
CONSTANTS
  Connectors = {"slack", "discord", "irc", "signal", "whatsapp"}
  Cap = 3
  HistoryLimit = 2
  MaxPosted = 4
  MaxQueued = 1
  MaxPings = 2
INVARIANTS
  TypeOK
  StreamsLoseOnlyWhatTheyMay
  StreamsShowInOrder
  PingsAreAccountedFor
PROPERTIES
  ArrivalsAreHandled
\* The task may have ended with everything posted.
CHECK_DEADLOCK FALSE
