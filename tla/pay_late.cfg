SPECIFICATION Spec
CONSTANTS
  Clients = {c}
  Hooks = {h}
  MaxOrders = 1
  MaxPayments = 1
  OrderTotal = 3
  DepositPercent = 50
  LateNotices = TRUE
  RefundMayFail = FALSE
  MaxStops = 0
INVARIANT CreditWithinPaid
CHECK_DEADLOCK FALSE
