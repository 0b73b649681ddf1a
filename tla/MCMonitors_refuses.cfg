SPECIFICATION Spec
CONSTANTS
  Checks = {c1, c2}
  None = none
  Entities = {e1}
  Feeds = {TRUE}
  Lag = 0
  MaxBlock = 2
  MaxEdits = 0
  MaxCrashes = 0
SYMMETRY Symmetry
INVARIANT NeverRefusesItself
CHECK_DEADLOCK FALSE
