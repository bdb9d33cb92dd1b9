SPECIFICATION Spec
CONSTANTS
  Targets <- QueryAndByteTargets
  UsizeSize = 65536
  None = None
INVARIANTS
  TypeOK
  QueryIsExact
  MatchesNormalization
CHECK_DEADLOCK FALSE
