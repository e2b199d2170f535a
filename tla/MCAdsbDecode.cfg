SPECIFICATION DecodeSpec
CONSTANTS
  Settings <- MCSettings
  Traffic <- MCTraffic
INVARIANT FramesReceived
PROPERTY RoundEnds
CHECK_DEADLOCK FALSE
