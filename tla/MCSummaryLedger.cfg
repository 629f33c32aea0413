SPECIFICATION FairSpec
CONSTANTS
  t1 = t1  s1 = s1  None = None
  Tasks <- MCOneTask
  Slots <- MCOneSlot
  MaxCompletions = 2
  MaxBatch = 1
  MaxGeneration = 3
  MaxLeases = 2
  MaxCrashes = 1
  Cleaner = TRUE
INVARIANTS
  TypeOK
  NoCompletionLost
  RowsAreTrue
  RetainedObjectsExist
PROPERTIES
  ImplementsMailbox
  EventuallySummarised
CHECK_DEADLOCK FALSE
