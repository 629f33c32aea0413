SPECIFICATION Spec
CONSTANTS
  t1 = t1  s1 = s1  None = None
  Tasks <- MCOneTask
  Slots <- MCOneSlot
  MaxCompletions = 2
  MaxBatch = 1
  MaxGeneration = 3
  MaxLeases = 1
  MaxCrashes = 1
  Cleaner = FALSE
INVARIANT FailureReleasesClaim
CHECK_DEADLOCK FALSE
