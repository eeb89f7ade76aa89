SPECIFICATION Spec
CONSTANTS
  r = r
  a = a
  b = b
  c = c
  d = d
  Nodes = {r, a, b, c}
  Root = r
  NoNode = none
  Edges <- Kite
  MaxRounds = 2
  MaxLoss = 0
  MaxDue = 2
  MaxEarly = 1
  FalsePositives = FALSE
INVARIANTS
  TreeRooted
  TimerNeverRearmed
  OneBlockPerRound
  DownAfterUp
  BlocksAgree
  ServiceInv
  OneInService
CHECK_DEADLOCK FALSE
