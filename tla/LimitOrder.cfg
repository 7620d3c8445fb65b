CONSTANTS
  Qty = 3
  Timeout = 2
  MaxRetries = 1
  MarketFallback = TRUE
  MaxDelay = 1
  MaxNow = 21
SPECIFICATION Spec
INVARIANTS
  OrdersAddUp
  WaitBounded
PROPERTIES
  Ends
  KeepsContract
CHECK_DEADLOCK FALSE
