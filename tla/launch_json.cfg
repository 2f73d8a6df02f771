SPECIFICATION VscodeSpec
CONSTANTS
  Letters <- AllLetters
  RepoChars <- InRepos
  PackageChars <- InPackages
  Scenarios <- AllScenarios
  MaxRuns = 2
INVARIANT ConfigurationsKept
PROPERTY NotWrittenOver
CHECK_DEADLOCK FALSE
