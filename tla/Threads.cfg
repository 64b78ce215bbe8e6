CONSTANTS
  MaxRequests = 2
  Threads = {t, u}
  MaxEndpoints = 2
  Nobody = Nobody
SPECIFICATION FairSpec
\* The model ends with a collision on the free list.
CHECK_DEADLOCK FALSE
INVARIANTS
  TypeOK
  HandlesStayApart
PROPERTIES
  ModesKept
  OwnMessages
  NonBlockingReturns
