SPECIFICATION Spec
CONSTANTS
  MaxSignals = 2
  MaxBuffers = 3
PROPERTIES RoundsAreNew NewIsDecoded CancelEnds
CHECK_DEADLOCK FALSE
