SPECIFICATION TripSpec
CONSTANTS
  Targets <- TripTargets
  UsizeSize = 65536
  None = None
INVARIANT PathSurvives
CHECK_DEADLOCK FALSE
