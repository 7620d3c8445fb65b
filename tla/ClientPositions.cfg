CONSTANTS
  a1 = a1
  a2 = a2
  s1 = s1
  s2 = s2
  Clients = {"hyperliquid", "hyena", "onyx", "nado", "zero1", "omni", "rise", "ethereal", "pacifica"}
  Accounts <- MCAccounts
  Main = {s1}
  Other = {s2}
  MaxSize = 2
  MaxTries = 2
  MaxAttempts = 2
  MaxRuns = 2
SPECIFICATION MCSpec
INVARIANTS
  LeftExplained
PROPERTIES
  NeverTurnsRound
  ScopeKept
  EndedIsFinal
  Ends
CHECK_DEADLOCK FALSE
