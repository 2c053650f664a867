SPECIFICATION Spec
CONSTANTS
  LastMinute = 8
  BucketSize = 2
  SpikeFrom = 2
  SpikeUntil = 4
  MinPullback = 1
  MaxPullback = 2
  PriorCount = 1
  MaxFaults = 2
  MaxRestarts = 1
INVARIANTS
  OneOutcome
  MemoryFollowsLog
  TriggerEarned
  SettledAtClose
CHECK_DEADLOCK FALSE
