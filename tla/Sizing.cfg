SPECIFICATION SizingSpec
CONSTANTS
  N = 3
  K = 3
  Leverage = 2
  MinTrade = 12
  Balances = {0, 20, 70}
  Totals = {61, 200}
  Percents = {50, 100}
  LotPrices = {3, 7, 25}
INVARIANTS
  SizingTypeOK
  SizesFit
  HedgesMatchPrime
  BasketNeutral
CHECK_DEADLOCK FALSE
