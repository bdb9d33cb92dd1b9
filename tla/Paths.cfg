SPECIFICATION Spec
CONSTANTS
  Targets <- PathTargets
  UsizeSize = 65536
  None = None
INVARIANTS
  StateTellsOutput
  OutputFits
  PathIsNormal
  ExtensionInsidePath
  PlusIsReported
  MatchesNormalization
PROPERTIES
  StackSpec
  Progress
  Termination
CHECK_DEADLOCK FALSE
