SPECIFICATION FairSpec
CONSTANTS
  Nodes = {1, 2, 3}
  Word = 65536
  Root = 1
  p1 = p1
  p2 = p2
  p3 = p3
  Packets = {p1}
  Origin <- Source
  Target <- Sink
  MaxLen = 2
  MaxLenPerDst = 1
  Timeout = 1
  LookupStart = 2
  Scenarios <- TrafficAlone
PROPERTY RoutedLeaves
CHECK_DEADLOCK FALSE
