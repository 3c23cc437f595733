SPECIFICATION Spec
CONSTANTS
  OS_TASKS = 2
  MaxDelay = 2
  DlyMod = 4
  CalcTicks = 1
INVARIANT NoTaskLost
