--------------------------- MODULE MCFastpathLeast ---------------------------
EXTENDS MCFastpathSolver, FastpathLeast

MixedGraphs == FeatureFreeGraphs \cup IrregularGraphs
=============================================================================
