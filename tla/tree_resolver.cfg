SPECIFICATION FairSpec
CONSTANTS
  Crate <- MCCrate
  Feature <- MCFeature
  Platform <- MCPlatform
  Triple <- MCTriple
  CargoOf <- MCCargoOf
  HostTools = {"linux", "mac"}
  MaxParallel = 2
  FakeRoot = "fake"
  Requests <- MCRequests
INVARIANT PoolSound
INVARIANT TreesMerged
PROPERTY PoolEmpties
