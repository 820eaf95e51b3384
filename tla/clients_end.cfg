CONSTANTS
  Client = {c1}
  Daemon = {c1, d1, d2}
  NoFile = NoFile
  StaleFile = StaleFile
  MayStop = TRUE
  SpawnMayFail = TRUE
  MayTimeOut = TRUE
SPECIFICATION FairSpec
PROPERTIES PingsAndStartsEnd
CHECK_DEADLOCK FALSE
