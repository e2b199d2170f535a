SPECIFICATION FairSpec
CONSTANTS
  NBuf = 2
  MaxCalls = 1
  RecancelOk = TRUE
PROPERTY CloseReturns
CHECK_DEADLOCK FALSE
