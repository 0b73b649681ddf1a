CONSTANT MaxHead = 4
SPECIFICATION Spec
INVARIANTS TypeOK NothingPartial SnapshotIsPinned AgeIsHonest ConflictIsSaid ConfidenceIsEarned ChangeNeedsThePast FailsClosed
CHECK_DEADLOCK FALSE
PROPERTIES Concludes
