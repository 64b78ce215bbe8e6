CONSTANTS
  Ports = {1, 257, 65535, 65537}
  LocalNode = 0
  MaxEndpoints = 4
  FirstSession = 1
  CountSpan = 8
  MappedEntries = 6
  MaxCreates = 9
  NoPort = NoPort
  Driver = Driver
SPECIFICATION Spec
\* An assertion that fails ends the process.
CHECK_DEADLOCK FALSE
INVARIANTS
  TypeOK
  LiveEndpointsFound
  HandlesFindTheirEndpoint
  EndpointsMatchSessions
  AbortNeedsRefusal
  RefusalHitsEntryZero
PROPERTIES
  ImplementsEndpointSet
