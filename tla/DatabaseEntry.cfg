CONSTANTS
  Nodes = {p1, p2}
  MaxDeaths = 0
  Repeaters = {p1}
  MaxNodes = 2
  Segments = {s1, s2, s3}
  NoSegment = NoSegment
  NoNode = NoNode
SPECIFICATION Spec
INVARIANTS
  OwnEntry
CHECK_DEADLOCK FALSE
