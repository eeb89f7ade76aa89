SPECIFICATION Spec
CONSTANTS
  r = r
  a = a
  b = b
  c = c
  d = d
  Nodes = {r, a, b}
  Root = r
  NoNode = none
  Edges <- Triangle
  MaxRounds = 1
  MaxLoss = 0
  MaxDue = 2
  MaxEarly = 0
  FalsePositives = FALSE
INVARIANTS
  VotesReach
CHECK_DEADLOCK FALSE
