SPECIFICATION Spec
CONSTANTS
  Rooms = {r1}
  NoRoom = NoRoom
  Clients = {c1}
  Ops = {"recv_wait", "recv_nowait"}
  MaxEmitted = 2
  MaxSent = 0
INVARIANTS
  NoMissedNotify
\* Every process may be gone and every connector dead.
CHECK_DEADLOCK FALSE
