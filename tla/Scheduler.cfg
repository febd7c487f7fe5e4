CONSTANTS
  None = None
  m1 = m1
  m2 = m2
  Items = {}
  Menu = {}
  SlotCount = 1
  MaxPending = 0
  MaxRequests = 0
  MaxGeneration = 0
  MaxDepth = 0
  MaxPosted = 0
  Keys = {k1, k2, k3}
  k1 = k1
  optimistic = optimistic
  Payloads = {optimistic, plain}
  Compatible <- SingleJournal
  MaxActiveKeys = 2
  QueueBound <- MCBounds
SPECIFICATION SchedulerSpec
PROPERTIES
  ImplementsFifo
  EveryKeyServed
