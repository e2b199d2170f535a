SPECIFICATION Spec
CONSTANTS
  Points = 6
  Bins = 3
  Margin = 17
  Buffer = 1
  Averaging = TRUE
  Windows <- MCWindows
  Spectra <- MCSpectra
  Garbage = {0, 1}
INVARIANTS PinTellsSpike OverrunOnlyIfUneven
PROPERTIES RisesOncePerDetection OrderedByFrequency
CHECK_DEADLOCK FALSE
