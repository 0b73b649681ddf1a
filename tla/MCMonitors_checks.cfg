SPECIFICATION Spec
CONSTANTS
  Checks = {c1, c2, c3}
  None = none
  Entities = {e1, e2}
  Feeds = {FALSE}
  Lag = 1
  MaxBlock = 3
  MaxEdits = 1
  MaxCrashes = 1
SYMMETRY Symmetry
INVARIANTS TypeOK AlarmIsReal NoSilentChange StatusOfAnalysis
CHECK_DEADLOCK FALSE
