SPECIFICATION FairSpec
CONSTANTS
  Examples = {"chat", "webchat", "process"}
  Conns = {a, b}
  MaxConns = 2
  MaxTerminals = 1
  MaxInputs = 2
  Capacity = 2
  Buffer = 1
  MaxRequests = 3
  Keep = 2
  Recent = 1
  MaxLines = 2
  MaxOutput = 3
INVARIANTS
  TypeOK
  ChatKnowsItsUsers
  PrintsEachLineOnce
  DrainedClientsAreUpToDate
PROPERTIES
  ClientsNeverGoBack
  ClientsCatchUp
\* Every client may be gone.
CHECK_DEADLOCK FALSE
