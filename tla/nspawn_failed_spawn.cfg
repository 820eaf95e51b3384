CONSTANTS
  PoolSize = 1
  MaxTasks = 1
  MaxMachines = 2
  SpawnMayFail = TRUE
  Held = {}
SPECIFICATION FairSpec
PROPERTIES PoolRecovers
CHECK_DEADLOCK FALSE
