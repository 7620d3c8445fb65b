CONSTANTS
  a1 = a1
  a2 = a2
  a3 = a3
  a4 = a4
  Configured <- MCConfigured
  Orders <- MCOrders
  Configs <- MCConfigs
  LimitWait = 1
  GateWait = 3
  Heartbeat = 1
  Duration = 2
  Grace = 2
  MaxLeft = 1
SPECIFICATION Spec
INVARIANTS
  OneDriverPerAccount
  CancelledOnlyLate
  LeftoversExplained
  OneMoreTradeAfterStop
PROPERTY
  Regroups
CHECK_DEADLOCK FALSE
