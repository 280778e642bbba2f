SPECIFICATION FairSpec
CONSTANTS
  e1 = e1  e2 = e2  e3 = e3  t1 = t1  t2 = t2
  Entries = {e1, e2}
  Tables = {t1}
  NoEntry = NoEntry  NoTable = NoTable
  Clients = {c}
  Tickers = {p}
  Phone <- MCPhoneDistinct
  PartySize <- MCPartySize
  Capacity <- MCCapacity
  MaxQueueSize = 2
  ManualDispatch = FALSE
  ManualRemove = TRUE
  UsesTables = TRUE
  QueueComplete = FALSE
  ExternalTms = TRUE
  StaffMoves = {}
  HostDiscipline = TRUE
  MayFail = FALSE
INVARIANTS RowShape
PROPERTIES LapsedIsHandled
CHECK_DEADLOCK FALSE
