SPECIFICATION Spec
CONSTANTS
  Targets <- ByteTargets
  UsizeSize = 65536
  None = None
INVARIANT UsualExcludesListed
CHECK_DEADLOCK FALSE
