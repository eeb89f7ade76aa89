SPECIFICATION FairSpec
CONSTANTS
  r = r
  a = a
  b = b
  c = c
  d = d
  Nodes = {r, a, b}
  Root = r
  NoNode = none
  Edges <- Star
  MaxRounds = 2
  MaxLoss = 1
  MaxDue = 2
  MaxEarly = 0
  FalsePositives = FALSE
PROPERTIES
  AskAnswered
CHECK_DEADLOCK FALSE
