SPECIFICATION Spec
CONSTANTS
  t1 = t1
  t2 = t2
  Triggers = {t1, t2}
  Ratio <- MCRatio
  Wants <- MCWants
  Capital = 2
  Threshold <- MCThreshold
  VwapWait = 1
  FeedStale = 2
  WriteEvery = 1
  MaxEvents = 2
  MaxRuns = 2
INVARIANTS
  DeadFeedPauses
