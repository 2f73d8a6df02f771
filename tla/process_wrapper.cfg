CONSTANTS
  Options <- OptionRecord
  Line = {"diagnostic", "metadata", "artifact", "noise", "text", "binary"}
  PipeCapacity = 2
  MaxLines = 3
  Files <- MCFiles
  ProcessEnv <- MCProcessEnv
  Launches <- MCLaunches
SPECIFICATION FairLaunchSpec
INVARIANT TypeOK
INVARIANT OutcomeSound
INVARIANT OutputKept
INVARIANT LaunchMeant
PROPERTY RefinesCompileAction
PROPERTY WrapperEnds
