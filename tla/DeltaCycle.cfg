CONSTANTS
  s1 = s1
  s2 = s2
  a1 = a1
  a2 = a2
  Symbols <- MCSymbols
  Accounts <- MCAccounts
  MaxAttempts = 2
  PerTrade = 1
  UseLimit = TRUE
  MaxFailures = 2
  MaxStreak = 2
SPECIFICATION Spec
INVARIANTS
  CleanAtRest
  CrashedByStreak
PROPERTIES
  StopEnds
CHECK_DEADLOCK FALSE
