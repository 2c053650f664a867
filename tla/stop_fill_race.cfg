SPECIFICATION Spec
CONSTANTS
  t1 = t1
  t2 = t2
  t3 = t3
  A = A
  NoTrade = NoTrade
  Trades <- OneTrade
  Symbols = {A}
  SymbolOf <- InA
  DirOf <- Long
  Events <- StopRaces
  MaxEvents = 1
  Lot = 1
  LossCap = 1
  CommandKinds = {"CLOSE_POSITION"}
  MaxCommands = 1
  MaxStarts = 1
  LastPhase = 2
INVARIANTS
  NeverReversed
CHECK_DEADLOCK FALSE
