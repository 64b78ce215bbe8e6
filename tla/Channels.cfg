CONSTANTS
  MaxRequests = 3
  Ports = {a, b}
  NoEp = NoEp
  MaxQueued = 1
  Supported = TRUE
  Misaligned = TRUE
SPECIFICATION Spec
SYMMETRY PortSymmetry
\* An assertion that fails ends the process.
CHECK_DEADLOCK FALSE
INVARIANTS
  TypeOK
  PacketsIntact
  PoolSurvives
  PeerKnown
  NoGhostChannel
