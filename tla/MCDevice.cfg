SPECIFICATION Spec
CONSTANTS
  Freqs = {1000000, 100000000}
  Rates = {300000, 2048000, 900000}
  Corrs = {50}
  Gains = {10}
  Xtals = {0, 28800500}
  Chips = {"FC0012", "R828D"}
  MaxHandles = 1
INVARIANTS TunedUnlessDisplaced ClocksApplied ClosedGivesBack
PROPERTY SuccessKeepsSound
