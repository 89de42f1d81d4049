SPECIFICATION ServiceFairSpec
CONSTANTS
  Producers = {p1, p2, p3}
  Consumers = {q1, q2}
  Msgs = {m1, m2}
  NoMsg = NoMsg
  Capacity = 2
  MaxTickets = 4
  c1 = c1
  c2 = c2
  Co = {c1, c2}
  MaxCnt = 3
  MaxTmId = 2
  Firings = 2
  MaxPending = 2
  MaxKept = 1
  None = None
INVARIANTS SlotAccessExclusive NothingOnlyIfUnpublished MailSlotExclusive
INVARIANTS CurCoIsRunning MeetsItsWaiter
PROPERTIES ImplementsFifo MailIsFifo SleepReturns
CHECK_DEADLOCK FALSE
