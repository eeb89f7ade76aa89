SPECIFICATION Spec
CONSTANTS
  r = r
  a = a
  b = b
  c = c
  d = d
  Nodes = {r, a, b}
  Root = r
  NoNode = none
  Edges <- Line
  MaxRounds = 2
  MaxLoss = 1
  MaxDue = 2
  MaxEarly = 2
  FalsePositives = FALSE
INVARIANTS
  TypeOK
PROPERTIES
  BlockOncePerReset
  KeepsTuples
CHECK_DEADLOCK FALSE
