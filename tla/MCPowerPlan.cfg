\* Ranges from a sixtieth of the lowest rate to fifty hops, at the rates'
\* own ends, and bins from 150 Hz to giant ones.
SPECIFICATION PlanSpec
CONSTANTS
    Widths = {1, 2, 2051, 16667, 100000, 699999, 700000, 933333, 999999, 1000000, 1400000,
              2799999, 2800000, 2800001, 5600001, 20000000, 33333333}
    Sizes = {150, 997, 12500, 100000, 700001, 999999, 1000000, 2500000}
    Crops = {0, 1, 2, 3}
    Lower = 88000000
INVARIANT RowsTile
INVARIANT HopsSampled
CHECK_DEADLOCK FALSE
