SPECIFICATION Spec
CONSTANTS
  e1 = e1  e2 = e2  e3 = e3  t1 = t1  t2 = t2
  Entries = {e1, e3}
  Tables = {t1}
  NoEntry = NoEntry  NoTable = NoTable
  Clients = {c, d}
  Tickers = {}
  Phone <- MCPhone
  PartySize <- MCPartySize
  Capacity <- MCCapacity
  MaxQueueSize = 2
  ManualDispatch = FALSE
  ManualRemove = FALSE
  UsesTables = TRUE
  QueueComplete = FALSE
  ExternalTms = FALSE
  StaffMoves <- MCStaffMoves
  HostDiscipline = FALSE
  MayFail = FALSE
INVARIANT NoDuplicateGuest
CHECK_DEADLOCK FALSE
