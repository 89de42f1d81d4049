SPECIFICATION FairSpec
CONSTANTS
  once = once
  twice = twice
  Timers = {once, twice}
  Leaving = {twice}
  Idx = {i1}
  QueCap = 2
  Delay <- MCDelay
  Repeat <- MCRepeat
  StepMsgMax = 1
  MaxWait = 2
  MayShutdown = TRUE
INVARIANTS TimersKept SleepsSoundly
PROPERTIES EveryTimerEnds
CHECK_DEADLOCK FALSE
