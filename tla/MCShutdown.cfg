SPECIFICATION FairSpec
CONSTANTS
  Workers = {w1, w2}
  Others = {}
  Ext = {e1}
  ExThread = x
  Senders = {w1, w2, x}
  MqCap = 1
  MaxMsgs = 2
INVARIANTS LogsAll NotFreedInUse
PROPERTIES ShutdownEnds
CHECK_DEADLOCK FALSE
