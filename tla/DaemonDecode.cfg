SPECIFICATION Spec
CONSTANTS
  Rooms = {r1}
  NoRoom = NoRoom
  Clients = {c1}
  Ops = {"list", "state", "send"}
  MaxEmitted = 1
  MaxSent = 1
INVARIANTS
  RepliesDecodeAsThemselves
\* Every process may be gone and every connector dead.
CHECK_DEADLOCK FALSE
