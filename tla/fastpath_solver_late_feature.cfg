CONSTANTS
  N <- MCN
  Triple <- MCTriple
  Feature <- MCFeature
  NoDep <- MCNoDep
  Graphs <- LateFeatureGraphs
  MaxRounds = 50
SPECIFICATION Spec
INVARIANT ConvergedIsFixpoint
