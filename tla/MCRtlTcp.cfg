SPECIFICATION FairSpec
CONSTANT MaxSignals = 4
INVARIANTS TypeOK OnlySignalsEnd PinStaysReleased HandlerOnFftHasDevice
PROPERTY CaughtSignalExits
CHECK_DEADLOCK FALSE
