SPECIFICATION FairSpec
CONSTANTS
  Callers = {c1, c2, c3}
  Nobody = nobody
  Threshold = 2
  Cooldown = 2
  MaxLag = 1
  Cap = 5
INVARIANTS TypeOK OpensOnStreak CountsEveryFailure
PROPERTIES CircuitCloses AtomicUnlessOvertaken
CHECK_DEADLOCK FALSE
