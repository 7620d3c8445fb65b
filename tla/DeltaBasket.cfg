CONSTANTS
  s1 = s1
  s2 = s2
  a1 = a1
  a2 = a2
  Symbols <- MCTwoSymbols
  Accounts <- MCAccounts
  MaxAttempts = 1
  PerTrade = 2
  UseLimit = FALSE
  MaxFailures = 1
  MaxStreak = 1
SPECIFICATION CleanSpec
INVARIANTS
  CleanAtRest
SYMMETRY Alike
CHECK_DEADLOCK FALSE
