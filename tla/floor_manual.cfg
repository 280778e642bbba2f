SPECIFICATION Spec
CONSTANTS
  e1 = e1  e2 = e2  e3 = e3  t1 = t1  t2 = t2
  Entries = {e1, e2, e3}
  Tables = {}
  NoEntry = NoEntry  NoTable = NoTable
  Clients = {w}
  Tickers = {w}
  Phone <- MCPhoneDistinct
  PartySize <- MCPartySize
  Capacity <- MCCapacity
  MaxQueueSize = 3
  ManualDispatch = TRUE
  ManualRemove = TRUE
  UsesTables = FALSE
  QueueComplete = TRUE
  ExternalTms = FALSE
  StaffMoves = {}
  HostDiscipline = FALSE
  MayFail = FALSE
INVARIANTS PositionsAtRest CalledAheadAtRest
PROPERTIES CallsInOrder RefinesLifecycle
CHECK_DEADLOCK FALSE
