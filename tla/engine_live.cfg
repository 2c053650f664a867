SPECIFICATION FairSpec
CONSTANTS
  t1 = t1
  t2 = t2
  t3 = t3
  A = A
  NoTrade = NoTrade
  Trades <- OneTrade
  Symbols = {A}
  SymbolOf <- InA
  DirOf <- Long
  Events <- LiveEvents
  MaxEvents = 2
  Lot = 1
  LossCap = 1
  CommandKinds = {"CLOSE_POSITION", "KILL_ALL"}
  MaxCommands = 2
  MaxStarts = 1
  LastPhase = 3
PROPERTIES
  ShutdownCompletes
  HeldSharesGetCovered
  CommandsResolved
CHECK_DEADLOCK FALSE
