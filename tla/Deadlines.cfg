SPECIFICATION PairSpec
CONSTANTS
  Times = {0, 1, 2, 3}
  MaxTime = 3
  MaxGeneration = 4
INVARIANTS CallbackOnce
PROPERTIES ImplementsAlarm CallbackRuns ImplementsFairAlarm
CHECK_DEADLOCK FALSE
