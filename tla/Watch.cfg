SPECIFICATION WatchFairSpec
CONSTANTS
  Rooms = {r1}
  NoRoom = NoRoom
  Clients = {c1, c2}
  Watchers = {c1}
  Ops = {"recv_wait", "recv_nowait", "send"}
  MaxEmitted = 2
  MaxSent = 1
INVARIANTS
  EachMessageRunsOnce
PROPERTIES
  NextMessageReachesAReader
  RequestsAreAnswered
  AcceptedIntentsAreSettled
  WatchedMessagesAreSettled
CHECK_DEADLOCK FALSE
