SPECIFICATION SystemSpec
CONSTANTS
  PoolSize = 1
  MaxTasks = 2
  MaxMachines = 2
  SpawnMayFail = TRUE
  Held = {}
  Client = {c1, c2}
  NoClient = none
  Capacity = 1
  MaxRestarts = 1
INVARIANTS ToldOfProcesses
PROPERTIES ImplementsTaskClients
CHECK_DEADLOCK FALSE
CONSTRAINT FollowedAfterRestart
SYMMETRY ClientSymmetry
