SPECIFICATION Spec
CONSTANTS
  s1 = s1  s2 = s2  None = None
  Slots <- MCTwoSlots
  Chunks = 3
  Window = 2
  Prebuffer = 2
  MaxTries = 1
  MaxRequests = 2
  MaxLeases = 2
  MaxConn = 1
  MaxCrashes = 1
  MaxErrors = 1
  MaxInFlight = 2
  MaxQueue = 1
INVARIANTS
  TypeOK
  PlaybacksAreEarned
  DeviceIsConsistent
PROPERTY ImplementsListening
SYMMETRY MCSymmetry
CHECK_DEADLOCK FALSE
