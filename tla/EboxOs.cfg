SPECIFICATION FairSpec
CONSTANTS
  OS_TASKS = 2
  MaxDelay = 2
  DlyMod = 3
  CalcTicks = 1
INVARIANTS
  TypeOK
  IdleAlwaysReady
  ContextIntact
  LockedOnlyByIdle
  WaitingTaskCounts
  UntornLosesNobody
  UntornRunsReady
PROPERTIES
  UntornDispatchesHighest
  SchedulerRealigns
