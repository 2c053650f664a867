SPECIFICATION Spec
CONSTANTS
  t1 = t1
  t2 = t2
  t3 = t3
  A = A
  NoTrade = NoTrade
  Trades <- ThreeTrades
  Symbols = {A}
  SymbolOf <- InA
  DirOf <- OneShort
  Events <- ReentryEvents
  MaxEvents = 2
  Lot = 1
  LossCap = 1
  CommandKinds = {"KILL_ALL"}
  MaxCommands = 1
  MaxStarts = 2
  LastPhase = 2
INVARIANTS
  IInv
  OneOpenTradePerSymbol
  ClosedBookedInFull
  CloseReasonIsTrue
PROPERTIES
  NoEntryPastLossCap
CHECK_DEADLOCK FALSE
