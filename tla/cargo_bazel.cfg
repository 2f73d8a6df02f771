SPECIFICATION Spec
CONSTANTS
  Crate <- MCCrate
  MaxEdit = 1
  RootDeps <- MCRootDeps
  MemberDeps <- MCMemberDeps
  Setups <- MCSetups
  None = None
  Empty = Empty
INVARIANT ServedIsCurrent
INVARIANT LocksSettled
INVARIANT PinsAreNeeded
PROPERTY MergesAreRefused
