CONSTANTS
  Daemon = {d1, d2, d3}
  NoFile = NoFile
  StaleFile = StaleFile
  MayStop = TRUE
SPECIFICATION Spec
INVARIANTS TypeOK OwnersReachable
PROPERTIES LoneStartPreservesLive RefusedOnlyIfLive
CHECK_DEADLOCK FALSE
