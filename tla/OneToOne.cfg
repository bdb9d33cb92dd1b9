SPECIFICATION HistSpec
CONSTANTS
  Inputs <- Inputs1
  OutCaps <- Exact
  MallocMayFail = FALSE
  UsizeSize = 65536
  None = None
INVARIANT ReplyIsPath
INVARIANT ReplyIsNormal
INVARIANT ReplyQueryIsExact
PROPERTY PortSteps
PROPERTY PortReturns
CHECK_DEADLOCK FALSE
