SPECIFICATION FairSpec
CONSTANTS
  r = r
  a = a
  b = b
  c = c
  d = d
  Nodes = {r, a, b, c, d}
  Root = r
  NoNode = none
  Edges <- Tree
  MaxRounds = 2
  MaxLoss = 0
  MaxDue = 2
  MaxEarly = 0
  FalsePositives = FALSE
INVARIANTS
  BusyServes
  FarVotesReach
PROPERTIES
  EveryRoundCompletes
  ReconcilesSets
CHECK_DEADLOCK FALSE
