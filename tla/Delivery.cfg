SPECIFICATION Spec
CONSTANTS
  Responses = {r1, r2}
  r1 = r1
  r2 = r2
  MaxChanges = 1
  None = None
  Asked = Asked
  Empty = Empty
  Failed = Failed
  MaxClicks = 4
  Launches = {l1, l2}
  l1 = l1
  l2 = l2
  MaxChoices = 3
  Sets = {s1, s2}
  s1 = s1
  s2 = s2
  Needs <- MCNeeds
  MaxEvents = 4
  Dirs = {d1, d2}
  d1 = d1
  d2 = d2
  Child <- MCChild
  f1 = f1
  f2 = f2
INVARIANTS
  ResponsesAreServed
  ReadyIsPending
  OneDesktop
  ReadyIsInstalled
PROPERTIES
  DeliveryEnds
  ForeignShortcutKept
CHECK_DEADLOCK FALSE
