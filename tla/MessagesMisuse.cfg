CONSTANTS
  MaxRequests = 2
  Ops = {o1, o2}
  Ports = {p1}
  Msgs = {m1}
  MaxInbox = 1
  Nothing = Nothing
  Filled = Filled
  NoOp = NoOp
  NoPort = NoPort
  Faults = TRUE
  Deletes = TRUE
  RetryAfterTimeout = TRUE
  LocalGets = TRUE
  TimedOps = {o1, o2}
SYMMETRY Symmetry
SPECIFICATION Spec
INVARIANTS
  FreeListSound
