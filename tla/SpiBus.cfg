CONSTANTS
  Task = {1, 2}
  Device <- MCDevice
  PerMs = 3
  MsMod = 8
  UsMod = 12
  Timeout = 2
  MaxLag = 2
SPECIFICATION Spec
INVARIANTS
  TypeOK
  OneUser
  NobodyLeavesItBusy
  WaitsFullTimeout
  TakeInTime
