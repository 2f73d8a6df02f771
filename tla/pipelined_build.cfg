\* A build stops once every action has run or waits for one that failed.
SPECIFICATION FairSpec
CONSTANTS
  Target <- MCTarget
  Builds <- MCBuilds
INVARIANT TypeOK
INVARIANT InputsExact
PROPERTY KeepsPromise
PROPERTY BuildProceeds
CHECK_DEADLOCK FALSE
