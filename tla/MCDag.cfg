\* Every graph of three nodes, and chains of full edges with merges.
SPECIFICATION FairSpec
CONSTANTS
  a = a
  b = b
  c = c
  d = d
  MaxEdges = 3
  Graphs <- SmallAndMerges
  MaxTime = 1
INVARIANTS
  ClaimsInOrder HistoriesAreKept
PROPERTIES
  ThinkTimeRespected GraphEnds
