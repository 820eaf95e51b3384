CONSTANTS
  PoolSize = 1
  MaxTasks = 1
  MaxMachines = 2
  SpawnMayFail = FALSE
  Held = {}
SPECIFICATION Spec
PROPERTIES TerminalIsFinal
CHECK_DEADLOCK FALSE
