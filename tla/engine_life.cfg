SPECIFICATION Spec
CONSTANTS
  t1 = t1
  t2 = t2
  t3 = t3
  A = A
  NoTrade = NoTrade
  Trades <- OneTrade
  Symbols = {A}
  SymbolOf <- InA
  DirOf <- Short
  Events <- LifeEvents
  MaxEvents = 3
  Lot = 2
  LossCap = 1
  CommandKinds = {"KILL_ALL"}
  MaxCommands = 1
  MaxStarts = 2
  LastPhase = 4
INVARIANTS
  NoUntrackedExposure
  RefusedTradesHoldNothing
  NoOrphanStop
  ExitsWithinEntry
  FinishedMeansFlat
PROPERTIES
  RowsFollowLifecycle
CHECK_DEADLOCK FALSE
