SPECIFICATION FairSpec
CONSTANTS
  Client = {c1, c2}
  NoClient = none
  Capacity = 1
  Slots = 1
  MaxTasks = 2
  MaxRestarts = 1
CHECK_DEADLOCK FALSE
INVARIANTS TypeOK NoCallLost OneTaskPerRun OrphansOnlyOfInterrupted ReportsItsTask CancelHonoured
PROPERTIES CallsEnd RunsEnd
