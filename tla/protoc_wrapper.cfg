SPECIFICATION ProtocSpec
CONSTANTS
  Required <- MCRequired
  Keyword <- MCKeyword
  Snake <- MCSnake
  Camel <- MCCamel
  Lower <- MCLower
  Builds <- MCBuilds
INVARIANT LibExact
INVARIANT TypesKnown
CHECK_DEADLOCK FALSE
