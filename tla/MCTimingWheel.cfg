SPECIFICATION WheelSpec
CONSTANTS
  Tasks = {t1, t2, t3, t4}
  TickDur = 2
  WheelSize = 2
  Times = {0, 1, 2, 3, 4, 7, 8, 12, 15, 16}
PROPERTIES ImplementsDeadlines FlushMovesDown
SYMMETRY TaskSymmetry
CHECK_DEADLOCK FALSE
