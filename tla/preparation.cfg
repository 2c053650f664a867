SPECIFICATION FairSpec
CONSTANTS
  TradingDay = TRUE
  MaxAttempts = 2
  StagesByHand = {"kite", "historical", "baselines"}
  MaxRuns = 2
  MaxManual = 2
  MaxCrashes = 1
  MaxSkips = 1
INVARIANTS
  ReadyMeansPrepared
  OneWriter
PROPERTIES
  PreparationEnds
CHECK_DEADLOCK FALSE
