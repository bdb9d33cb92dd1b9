SPECIFICATION Spec
CONSTANTS
  Inputs <- WrapperInputs
  OutCaps <- Around
  MallocMayFail = TRUE
  None = None
INVARIANT MinusOneIsARejection
CHECK_DEADLOCK FALSE
