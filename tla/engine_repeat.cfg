SPECIFICATION Spec
CONSTANTS
  t1 = t1
  t2 = t2
  t3 = t3
  A = A
  NoTrade = NoTrade
  Trades <- TwoTrades
  Symbols = {A}
  SymbolOf <- InA
  DirOf <- Long
  Events <- RepeatEvents
  MaxEvents = 2
  Lot = 1
  LossCap = 1
  CommandKinds = {"CLOSE_POSITION", "STOP", "START", "KILL_ALL"}
  MaxCommands = 1
  MaxStarts = 2
  LastPhase = 2
INVARIANTS
  AtMostOneEntry
  AtMostOneStop
  AtMostOneExit
  ExitsBookedOnce
CHECK_DEADLOCK FALSE
