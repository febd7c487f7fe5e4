SPECIFICATION Spec
CONSTANTS
  None = None
  series = series
  episode = episode
  one = one
  two = two
  Contents = {one, two}
  Items <- MCItems
  SeriesOf <- MCSeriesOf
  TermsOf <- MCTermsOf
  Stages <- MCStages
  FirstLibraries <- MCFirst
  Threshold = 2
  Overlap = 2
  MaxChanges = 2
  MaxFaults = 1
INVARIANT SearchFollowsRows
PROPERTY SweepDeletesOnlyGone
PROPERTY CatalogConverges
CHECK_DEADLOCK FALSE
