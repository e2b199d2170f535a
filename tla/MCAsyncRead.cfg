SPECIFICATION FairSpec
CONSTANTS
  NBuf = 2
  MaxCalls = 3
  RecancelOk = TRUE
INVARIANTS TypeOK FreeOnlyReturned
PROPERTIES CancelReturns Implements
CHECK_DEADLOCK FALSE
