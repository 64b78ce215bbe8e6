CONSTANTS
  MaxRequests = 2
  Ops = {o1, o2}
  Ports = {p1}
  Msgs = {m1, m2}
  MaxInbox = 2
  Nothing = Nothing
  Filled = Filled
  NoOp = NoOp
  NoPort = NoPort
  Faults = TRUE
  Deletes = TRUE
  RetryAfterTimeout = FALSE
  LocalGets = FALSE
  TimedOps = {o1, o2}
SYMMETRY Symmetry
SPECIFICATION Spec
INVARIANTS
  OwnRecord
  SuccessMeansDone
PROPERTIES
  ImplementsOperations
