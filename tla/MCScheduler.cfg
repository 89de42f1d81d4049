SPECIFICATION Spec
CONSTANTS
  p1 = p1
  p2 = p2
  s1 = s1
  s2 = s2
  WorkerNum = 2
  Services = {s1, s2}
  Senders = {p1, p2}
  MqInCap = 2
  StepMax = 2
  CountMod = 16
  MaxSends = 2
  MaxParked = 1
  Exiting = {s1}
  MayShutdown = FALSE
SYMMETRY Interchangeable
INVARIANTS OneTask NoStrandedMail StrandedOnlyByLostNotify FreedSafely
CHECK_DEADLOCK FALSE
