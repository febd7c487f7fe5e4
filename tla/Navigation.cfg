CONSTANTS
  Device = {d1}
  Worker = {w1}
  Control = ctl
  None = none
  MaxRestarts = 0
  Items = {a}
  Collections = {p}
  Accounts = {x, y}
  Lost = Lost
  Reads = {"activity"}
  MaxEvents = 2
  ReportSessions = {s1}
  MaxRequests = 0
  MaxGeneration = 0
  QueueBound = 0
SPECIFICATION NavigationSpec
INVARIANT ShownIsOfSession
PROPERTY CatalogSettles
CHECK_DEADLOCK FALSE
