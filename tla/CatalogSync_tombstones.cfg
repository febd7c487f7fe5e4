SPECIFICATION Spec
CONSTANTS
  None = None
  series = series
  episode = episode
  one = one
  two = two
  Contents = {one, two}
  Items <- MCItems
  SeriesOf <- MCSeriesOf
  TermsOf <- MCTermsOf
  Stages <- MCStages
  FirstLibraries <- MCBoth
  Threshold = 2
  Overlap = 1
  MaxChanges = 1
  MaxFaults = 1
INVARIANT RemovalsSurviveReopen
CHECK_DEADLOCK FALSE
