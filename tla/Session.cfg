CONSTANTS
  Device = {d1, d2}
  Worker = {w1, w2}
  Control = ctl
  None = none
  MaxRestarts = 1
  Items = {}
  Collections = {}
  Accounts = {x}
  Lost = Lost
  Reads = {"activity"}
  MaxEvents = 0
  ReportSessions = {s1, s2}
  MaxRequests = 3
  MaxGeneration = 1
  QueueBound = 3
SPECIFICATION SessionSpec
SYMMETRY Symmetry
INVARIANTS
  LogoutSilencesMonitor
  SessionSurvivesRestart
  StoppedFindsPlayback
CHECK_DEADLOCK FALSE
