SPECIFICATION Spec
CONSTANTS
  Written <- MCWritten
  Environments <- MCEnvironments
  MaxEdits = 3
CHECK_DEADLOCK FALSE
INVARIANTS TypeOK NeverFallsBack ServesOnlyConfigured ClientFindsDaemon
