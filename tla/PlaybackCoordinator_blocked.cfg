CONSTANTS
  s1 = s1
  s2 = s2
  None = None
  ReportSessions <- MCOneSession
  MaxRequests = 2
  MaxGeneration = 1
  QueueBound = 1
SPECIFICATION FairSpec
PROPERTIES SwitchNotBlocked
CHECK_DEADLOCK FALSE
