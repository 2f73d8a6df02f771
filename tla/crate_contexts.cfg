SPECIFICATION Spec
CONSTANTS
  Package <- MCPackage
  Name <- MCName
  ModuleOf <- MCModuleOf
  NoName <- MCNoName
  Triple <- MCTriple
  Cfg <- MCCfg
  Holds <- MCHolds
  Builtin <- MCTriple
  ConfigLabel = {"@//:label"}
  Alphabet <- MCAlphabet
  Families <- MCFamilies
INVARIANT DepsRight
INVARIANT NamesRight
INVARIANT AnnotationsHeard
CHECK_DEADLOCK FALSE
