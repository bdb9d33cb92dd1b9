SPECIFICATION Spec
CONSTANTS
  Targets <- SegmentTargets
  UsizeSize = 65536
  None = None
INVARIANT AllocatesOnlyForOtherBytes
CHECK_DEADLOCK FALSE
