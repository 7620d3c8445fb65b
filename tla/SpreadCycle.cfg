CONSTANTS
  MaxFailures = 2
  MaxCount = 2
SPECIFICATION SpreadSpec
INVARIANTS
  HedgedOrFlat
  MinimumHold
PROPERTY StopEnds
CHECK_DEADLOCK FALSE
