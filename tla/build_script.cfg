SPECIFICATION Spec
CONSTANTS
  Path <- MCPath
  OutPath <- MCOutPath
  Top = "top"
  Parent <- MCParent
  Manifest = "pkg"
  Volatile = {"config.log", "sub/foo.d"}
  EmptyMarker = ".empty"
  Actions <- MCActions
INVARIANT Captured
INVARIANT FailsForCause
INVARIANT OutputArrives
