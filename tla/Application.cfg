CONSTANTS
  FeatureCount = 3
  MaxRequests = 3
  Files = {f1, f2}
  Profiles = {hi, lo}
  hi = hi
  lo = lo
  Options = {"scale", "shaders"}
  Uses <- MCUses
  Lower <- MCLower
  Restores <- MCRestores
  Targets <- MCTargets
  MaxPlays = 3
  None = None
  MaxStalls = 5
  MaxInbox = 2
SPECIFICATION ApplicationSpec
INVARIANTS
  OpenFeatureIsCurrent
  ResultIsOfItsAccount
  OptionsAreWhole
  NewestOpenWins
  StallIsShown
PROPERTIES
  RequestIsAnswered
  PlayerSettles
CHECK_DEADLOCK FALSE
