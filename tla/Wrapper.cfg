SPECIFICATION Spec
CONSTANTS
  Inputs <- WrapperInputs
  OutCaps <- Around
  MallocMayFail = TRUE
  None = None
INVARIANT PointersStayInside
CHECK_DEADLOCK FALSE
