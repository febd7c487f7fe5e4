CONSTANTS
  s1 = s1
  s2 = s2
  None = None
  ReportSessions <- MCReportSessions
  MaxRequests = 3
  MaxGeneration = 1
  QueueBound = 2
SPECIFICATION FairSpec
INVARIANTS
  AnsweredOnce
PROPERTIES
  NeverStartsSuperseded
  TerminalReportsKeepOrder
  NewestAnswered
CHECK_DEADLOCK FALSE
