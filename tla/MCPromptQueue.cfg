CONSTANTS
  t1 = t1
  t2 = t2
  s1 = s1
  None = None
  Tasks <- MCTasks
  Slots <- MCSlots
  MaxRunning = 2
  MaxPending = 2
  MaxUtterances = 3
  MaxRebinds = 1
  MaxStops = 1
SPECIFICATION FairSpec
INVARIANTS TypeOK TaskRunsAlone
PROPERTIES ImplementsTaskFifo EveryJobEnds
