SPECIFICATION FairSpec
CONSTANTS
  Setups = {s1, s2}
  LastMinute = 3
  MaxFailures = 2
  MaxFlaps = 1
  MaxLost = 2
  MaxMissed = 1
INVARIANTS
  VerdictRestsOnMinutes
PROPERTIES
  WarmUpEnds
CHECK_DEADLOCK FALSE
