SPECIFICATION FairSpec
CONSTANTS
  DataSlots = 2
  CloseSlots = 1
  LifecycleSlots = 3
  ActiveRoutes = 2
  ReplySlots = 2
  ReplaySlots = 2
  CoreSteps = 2
  Scenes <- MCScenes
INVARIANTS TypeOK AdmissionHeld AnswersAreEarned StoreJobsAreSound
PROPERTY EverythingIsReleased
CHECK_DEADLOCK FALSE
