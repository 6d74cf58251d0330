SPECIFICATION FairSpec
CONSTANTS
  Tasks = {1, 2, 3, 4}
  Files = {f1, f2}
  f1 = f1
  f2 = f2
  MaxParallel = 2
  CanRaise = TRUE
INVARIANTS TestedOnIntegratedTree
PROPERTIES ScheduleSpec WavesEnd
CHECK_DEADLOCK FALSE
