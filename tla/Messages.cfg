CONSTANTS
  MaxRequests = 3
  Ops = {o1, o2}
  Ports = {p1}
  Msgs = {m1, m2}
  MaxInbox = 2
  Nothing = Nothing
  Filled = Filled
  NoOp = NoOp
  NoPort = NoPort
  Faults = FALSE
  Deletes = FALSE
  RetryAfterTimeout = FALSE
  LocalGets = FALSE
  TimedOps = {o1}
SPECIFICATION FairSpec
INVARIANTS
  TypeOK
  NoLeak
PROPERTIES
  ImplementsOperations
  SendsFinish
