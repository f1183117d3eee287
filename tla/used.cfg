SPECIFICATION Spec
CONSTANTS
  Ns <- MCNs
  NsOf <- MCNsOf
  Writers <- TwoWriters
  NoLabel = NoLabel
  NoHeader = NoHeader
  NoRow = NoRow
  None = None
  w1 = w1
  w2 = w2
  mine = mine
  theirs = theirs
  r1 = r1
  r2 = r2
  x = x
  y = y
  Evals = {1}
  Cards = {11}
  Covers <- MCCovers
  HeaderBodies <- OneHeader
  CardBodies <- UsingCards
  Labels = {}
  RunIds = {r1}
  RunBodies = {x, y}
  Omits = {x}
  NewEdges <- MCNewEdges
  MaxSeq = 1
INVARIANT TypeOK JudgedWasUsed UsedKeyUnique UsedBacked RefsBadgeHonest TxInv
PROPERTY HubSpec
