CONSTANT MaxHead = 3
SPECIFICATION Spec
INVARIANT RevertWasRun
CHECK_DEADLOCK FALSE
