CONSTANTS
  PoolSize = 3
  MaxTasks = 3
  MaxMachines = 5
  SpawnMayFail = TRUE
  Held = {}
SPECIFICATION Spec
PROPERTIES LoopsAreOneStep
CHECK_DEADLOCK FALSE
