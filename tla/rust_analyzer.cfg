SPECIFICATION Spec
CONSTANTS
  Requests <- AllRequests
  Launches <- AllLaunches
  Root <- WsDir
  None = "none"
INVARIANT ProjectExact
INVARIANT FilesFound
PROPERTY ReplacedByProject
PROPERTY Answered
CHECK_DEADLOCK FALSE
