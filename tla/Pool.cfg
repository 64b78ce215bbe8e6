CONSTANTS
  MaxRequests = 4
  Callers = {c1, c2}
SPECIFICATION Spec
INVARIANTS
  TypeOK
  FreeListSound
  LimitOnlyWhenAllReserved
  ExclusiveHandles
PROPERTIES
  ImplementsHandlePool
  ExhaustionIsPermanent
