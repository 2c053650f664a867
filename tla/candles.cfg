SPECIFICATION Spec
CONSTANTS
  PerMinute = 2
  SessionStart = 1
  SessionEnd = 3
  BucketSize = 2
  QueueMax = 2
  StaleAfter = 0
  MaxLate = 1
  MaxTicks = 4
  MaxFaults = 1
  MaxRestarts = 1
  Lags = FALSE
INVARIANTS
  NoFalseCoverage
  BucketsMatchMinutes
  ToldOnceAfterStore
  VolumeAddsUp
CHECK_DEADLOCK FALSE
