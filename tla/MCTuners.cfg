SPECIFICATION Spec
CONSTANTS
  Kinds = {"FC0012", "FC0013", "FC2580", "E4000"}
  Clock = 28800
  Freqs <- MCFreqs
  Gains <- MCGains
  IfGains <- MCIfGains
  Rates = {1000}
  PowerOn = {255}
  Volts = {0, 63}
  Unready = {5}
  RF_OUTDIV_B = 0
  MaxFailures = 1
INVARIANTS
  TunedAsAsked
  GainAsAsked
