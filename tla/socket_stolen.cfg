CONSTANTS
  Daemon = {d1, d2, d3}
  NoFile = NoFile
  StaleFile = StaleFile
  MayStop = FALSE
SPECIFICATION Spec
PROPERTIES LiveSocketPreserved
CHECK_DEADLOCK FALSE
