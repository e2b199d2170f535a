SPECIFICATION Spec
CONSTANTS
  Sticks <- McSticks
  Freqs = {100000, 868300}
  Gains = {157}
  Fines = {2}
  MaxFailures = 1
INVARIANTS TunedAsAsked GainAsAsked InputFollows
