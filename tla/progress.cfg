SPECIFICATION ProgressSpec
CONSTANTS
  Ns <- MCNs
  NsOf <- MCNsOf
  Writers <- TwoWriters
  NoLabel = NoLabel
  NoHeader = NoHeader
  NoRow = NoRow
  None = None
  w1 = w1
  w2 = w2
  mine = mine
  theirs = theirs
  r1 = r1
  r2 = r2
  x = x
  y = y
  Evals = {1, 2}
  Cards = {11, 12}
  Covers <- BothCoverAll
  HeaderBodies <- OneHeader
  CardBodies <- TwoEvalCard
  Labels = {}
  RunIds = {r1}
  RunBodies = {x}
  Omits = {}
  NewEdges <- UseOne
  MaxSeq = 1
PROPERTY EveryRequestEnds
