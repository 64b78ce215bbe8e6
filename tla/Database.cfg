CONSTANTS
  Nodes = {p1, p2, p3}
  MaxDeaths = 1
  Repeaters = {p1}
  MaxNodes = 2
  Segments = {s1, s2, s3}
  NoSegment = NoSegment
  NoNode = NoNode
SPECIFICATION FairSpec
INVARIANTS
  TypeOK
  MutualExclusion
  OneDatabase
  RegisteredOnce
  LeftOutOnlyWhenFull
PROPERTIES
  ZeroedOnlyAlone
  LostLockIsForGood
  ImplementsTable
  InitializeEnds
CHECK_DEADLOCK FALSE
