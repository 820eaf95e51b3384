CONSTANTS
  PoolSize = 1
  MaxTasks = 2
  MaxMachines = 3
  SpawnMayFail = FALSE
  Held = {2}
SPECIFICATION FairSpec
PROPERTIES PoolRecovers LostTaskEnds CancelTakesEffect TasksGetVerdicts
CHECK_DEADLOCK FALSE
