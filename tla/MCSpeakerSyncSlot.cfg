SPECIFICATION Spec
CONSTANTS
  DataSlots = 2
  CloseSlots = 1
  LifecycleSlots = 3
  ActiveRoutes = 2
  ReplySlots = 2
  ReplaySlots = 2
  CoreSteps = 2
  Scenes <- SlotScenes
INVARIANT ReadyIsUsable
CHECK_DEADLOCK FALSE
