SPECIFICATION Spec
CONSTANTS
  src = src
  wit = wit
  rel = rel
  dst = dst
  Nodes = {src, wit, rel, dst}
  Edges <- Diamond
  Root = wit
  Watched = {src, wit}
  Messages = {m1}
  Origin <- FromSrc
  Target <- ToDst
  Reputations = {90, 255}
  MaxRounds = 1
  NoVote = novote
INVARIANTS
  TypeOK
  OneTimerPerMessage
  PositiveNeedsAck
  NegativeNeedsMiss
PROPERTY PenaltyWasDue
CHECK_DEADLOCK FALSE
