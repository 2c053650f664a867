SPECIFICATION FairSpec
CONSTANTS
  a = a
  b = b
  Threads <- TwoThreads
  MaxProcs = 3
  MaxApi = 2
  Events <- OneFault
  MaxEvents = 1
INVARIANTS
  AtMostOneRunner
  AtMostOneEngine
  PreparationAlone
  NoFalseAlarm
PROPERTIES
  RunnerStartUnblocked
  EngineStartUnblocked
