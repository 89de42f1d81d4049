SPECIFICATION Spec
CONSTANTS
  Workers = {w1}
  Others = {}
  ExThread = x
  Ext = {e1}
  Senders = {w1, x}
  MqCap = 1
  MaxMsgs = 1
INVARIANTS AllExtThreadsDone
CHECK_DEADLOCK FALSE
