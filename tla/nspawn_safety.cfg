CONSTANTS
  PoolSize = 2
  MaxTasks = 3
  MaxMachines = 3
  SpawnMayFail = TRUE
  Held = {}
SPECIFICATION Spec
INVARIANTS TypeOK PlacementConsistent QueueExact WorkConserving PoolSizeKept MachinesExclusive NothingForgotten LeakOnlyByBootTimeout VerdictsJustified
PROPERTIES FifoStart FinalVerdicts ImplementsTaskService
CHECK_DEADLOCK FALSE
CONSTRAINT OneOrphan
