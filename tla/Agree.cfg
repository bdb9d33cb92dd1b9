SPECIFICATION ReplaySpec
CONSTANTS
  Targets <- AllTargets
  UsizeSize = 65536
  None = None
INVARIANTS
  Agreement
  RequestsAgree
  Retraces
PROPERTY Verdict
CHECK_DEADLOCK FALSE
