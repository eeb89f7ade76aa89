SPECIFICATION Spec
CONSTANTS
  src = src
  wit = wit
  rel = rel
  dst = dst
  m1 = m1
  Nodes = {src, wit, rel, dst}
  Edges <- Diamond
  Root = wit
  Watched = {src, wit}
  Messages = {m1}
  Origin <- FromSrc
  Target <- ToDst
  Reputations = {255}
  MaxRounds = 1
  NoVote = novote
INVARIANT LookupsReturn
CHECK_DEADLOCK FALSE
