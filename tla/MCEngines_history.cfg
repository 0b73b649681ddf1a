CONSTANT MaxHead = 3
SPECIFICATION Spec
INVARIANT ConsumedHistoryShows
CHECK_DEADLOCK FALSE
