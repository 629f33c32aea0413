SPECIFICATION Spec
CONSTANTS
  Capacity = 5
  InputCount = 2
  Rollover = 1
  Modifiers = {"Shift"}
  Key <- MCKey
  Bridged = {"app", "mic"}
  Typed = "T"
  Pieces = 2
  TextWindow = 1
  TextQueue = 1
  Handles = {1, 2}
  Scenes <- MCLateScenes
INVARIANT ClearedBeforeAccepted
CHECK_DEADLOCK FALSE
