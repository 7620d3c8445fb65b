SPECIFICATION MCSpec
CONSTANTS
  o1 = o1
  o2 = o2
  Clients = {"hyperliquid", "nado", "zero1", "omni", "rise", "ethereal", "pacifica"}
  Orders <- MCOrders
  Qty = 2
INVARIANTS
  PolledIsTrue
  VouchedIsOff
PROPERTIES
  FinalStaysFinal
  EndedIsReported
CHECK_DEADLOCK FALSE
