SPECIFICATION FairSpec
CONSTANTS
  Slots = {b, x}
  Boot = b
  MqInCap = 2
  MaxCallId = 2
  MaxMsgs = 3
  MaxServices = 2
INVARIANTS MailOfItsService OneAnswer
PROPERTIES CallNotLost CallReturns
CHECK_DEADLOCK FALSE
