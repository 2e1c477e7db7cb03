SPECIFICATION Spec
CONSTANTS
  Examples = {"process"}
  Conns = {a}
  MaxConns = 1
  MaxTerminals = 1
  MaxInputs = 0
  Capacity = 2
  Buffer = 1
  MaxRequests = 0
  Keep = 2
  Recent = 1
  MaxLines = 2
  MaxOutput = 3
INVARIANT PrintsWhatIsNew
CHECK_DEADLOCK FALSE
