SPECIFICATION Spec
CONSTANTS
  Ns <- MCNs
  NsOf <- MCNsOf
  Writers <- TwoWriters
  NoLabel = NoLabel
  NoHeader = NoHeader
  NoRow = NoRow
  None = None
  w1 = w1
  w2 = w2
  mine = mine
  theirs = theirs
  r1 = r1
  r2 = r2
  x = x
  y = y
  Evals = {1}
  Cards = {}
  Covers <- BothCoverAll
  HeaderBodies <- TwoHeaders
  CardBodies <- NoBodies
  Labels = {l1}
  RunIds = {r1, r2}
  RunBodies = {x, y}
  Omits = {x}
  NewEdges <- NoEdges
  MaxSeq = 3
INVARIANT RunsHashAgrees SeqGapFree NoRepeatedVersion LabelUnique
PROPERTY PublishedStays
