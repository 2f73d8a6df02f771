SPECIFICATION Spec
CONSTANTS
  CratesIo = "crates.index"
  NoReplace = "-"
  CratesIoIsSparse = TRUE
  NoName <- MCNoName
  DirectPackage <- MCDirectPackage
  Inputs <- MCInputs
INVARIANT UserFilesUntouched
INVARIANT MembersSpliced
INVARIANT SettingsKept
CHECK_DEADLOCK FALSE
