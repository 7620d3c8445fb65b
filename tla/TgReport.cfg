CONSTANTS
  Bots = {b1, b2, b3}
  Silent = {b3}
  MaxTrades = 2
SPECIFICATION StatsSpec
INVARIANTS
  TradesAccounted
  AloneIsSafe
CHECK_DEADLOCK FALSE
