CONSTANTS
  btc = btc
  eth = eth
  a1 = a1
  a2 = a2
  Symbols <- MCSymbols
  Accounts <- MCAccounts
  Qty <- MCQty
  Buys <- MCBuys
  Books <- MCBooks
  Prices = {10, 12, 19}
  FirstPrice = 10
  MaxSpread = 4
  GateWait = 3
  GatePoll = 2
  Duration = 6
  Heartbeat = 2
  LegLimit = 80
  BasketLimit = 10
  MaxRequest = 1
  MaxEvents = 1
SPECIFICATION Spec
INVARIANTS
  TypeOK
  VerdictsAreFresh
  HoldEnds
  BrokenIsNoticed
  ClosedForCause
SYMMETRY Alike
CHECK_DEADLOCK FALSE
