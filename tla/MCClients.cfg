SPECIFICATION MCFairSpec
CONSTANTS
  short = short
  long = long
  Conns = {short, long}
  Timeout <- MCTimeout
  MaxTime = 2
  MaxCo = 3
  Kinds = {"packet", "pipe"}
INVARIANTS FdOfOneHolder ToldOnce 
PROPERTIES TimedIsAnswered 
CHECK_DEADLOCK FALSE
