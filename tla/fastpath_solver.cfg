CONSTANTS
  N <- MCN
  Triple <- MCTriple
  Feature <- MCFeature
  NoDep <- MCNoDep
  Graphs <- MixedGraphs
  Compared <- LeastGraphs
  MaxRounds = 3
SPECIFICATION FairSpec
INVARIANT TypeOK
INVARIANT ResultExact
INVARIANT NothingForgotten
INVARIANT Least
PROPERTY RefinesClosure
PROPERTY Converges
