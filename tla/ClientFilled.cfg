SPECIFICATION MCSpec
CONSTANTS
  o1 = o1
  o2 = o2
  Clients = {"zero1"}
  Orders <- MCOrders
  Qty = 2
INVARIANTS
  FilledIsOffBook
CHECK_DEADLOCK FALSE
