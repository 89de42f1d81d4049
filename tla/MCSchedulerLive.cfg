SPECIFICATION FairSpec
CONSTANTS
  p1 = p1
  p2 = p2
  s1 = s1
  s2 = s2
  WorkerNum = 2
  Services = {s1}
  Senders = {p1}
  MqInCap = 1
  StepMax = 2
  CountMod = 16
  MaxSends = 2
  MaxParked = 0
  Exiting = {}
  MayShutdown = TRUE
PROPERTIES Served ShutdownCompletes
CHECK_DEADLOCK FALSE
