SPECIFICATION Spec
CONSTANTS
  r = r
  a = a
  b = b
  c = c
  d = d
  Nodes = {r, a, b}
  Root = r
  NoNode = none
  Edges <- Star
  MaxRounds = 1
  MaxLoss = 0
  MaxDue = 2
  MaxEarly = 0
  FalsePositives = TRUE
INVARIANTS
  TablesComplete
CHECK_DEADLOCK FALSE
