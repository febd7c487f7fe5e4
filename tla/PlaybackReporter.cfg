CONSTANTS
  s1 = s1
  s2 = s2
  None = None
  Sessions <- MCSessions
  MaxFiles = 3
  MaxGeneration = 6
SPECIFICATION FairSpec
PROPERTIES
  FollowsProtocol
  SessionStarts
CHECK_DEADLOCK FALSE
