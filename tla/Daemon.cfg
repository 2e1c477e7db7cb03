SPECIFICATION Spec
CONSTANTS
  Rooms = {r1}
  NoRoom = NoRoom
  Clients = {c1, c2}
  Ops = {"recv_wait", "recv_nowait", "send"}
  MaxEmitted = 3
  MaxSent = 2
SYMMETRY ClientSymmetry
INVARIANTS
  TypeOK
  SnapshotsStayInOrder
  EachMessageInOnePlace
  WaitingReaderGetsNews
  EachIntentInOnePlace
PROPERTIES
  ImplementsMailbox
\* Every process may be gone and every connector dead.
CHECK_DEADLOCK FALSE
