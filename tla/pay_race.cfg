SPECIFICATION FairSpec
CONSTANTS
  Clients = {c}
  Hooks = {h}
  MaxOrders = 1
  MaxPayments = 2
  OrderTotal = 3
  DepositPercent = 50
  LateNotices = FALSE
  RefundMayFail = TRUE
  MaxStops = 2
INVARIANTS DepositCreditedOnce RefundIsRecorded
PROPERTIES PaidIsRecorded
CHECK_DEADLOCK FALSE
