SPECIFICATION FairSpec
CONSTANTS
  Slots = {x1}
  Senders = {p1, p2}
  MqInCap = 1
  CountMod = 16
  MaxThreads = 2
  MaxSends = 1
  MayShutdown = TRUE
INVARIANTS SlotOfOneService SleepsAsCounted
PROPERTIES ShutdownCompletes
CHECK_DEADLOCK FALSE
