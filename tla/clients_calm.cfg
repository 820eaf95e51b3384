CONSTANTS
  Client = {c1, c2}
  Daemon = {c1, c2, d1}
  NoFile = NoFile
  StaleFile = StaleFile
  MayStop = FALSE
  SpawnMayFail = FALSE
  MayTimeOut = FALSE
SPECIFICATION FairSpec
INVARIANTS TypeOK
PROPERTIES FailsOnlyDuringStarts ReusesRunningDaemon PingsAnswered
CHECK_DEADLOCK FALSE
