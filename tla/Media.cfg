CONSTANTS
  None = None
  m1 = m1
  m2 = m2
  Items <- MCItems
  Menu <- MCMenu
  SlotCount = 2
  MaxPending = 2
  MaxRequests = 3
  MaxGeneration = 1
  MaxDepth = 2
  MaxPosted = 2
  Keys = {}
  k1 = k1
  optimistic = optimistic
  Payloads = {}
  Compatible <- SingleJournal
  MaxActiveKeys = 1
  QueueBound <- MCBounds
SPECIFICATION MediaSpec
INVARIANTS
  RequestsAccountedFor
  DoubtIsReconciled
PROPERTIES
  WaitersAreServed
CHECK_DEADLOCK FALSE
