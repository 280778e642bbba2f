SPECIFICATION Spec
CONSTANTS
  Clients = {w}
  Hooks = {w}
  MaxOrders = 2
  MaxPayments = 2
  OrderTotal = 3
  DepositPercent = 50
  LateNotices = FALSE
  RefundMayFail = FALSE
  MaxStops = 1
INVARIANTS TypeOK FinalPaidOnce FinalSettles CancelRefunds
CHECK_DEADLOCK FALSE
