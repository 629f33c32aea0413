SPECIFICATION FairSpec
CONSTANTS
  s1 = s1  s2 = s2  None = None
  Slots <- MCOneSlot
  Chunks = 1
  Window = 1
  Prebuffer = 1
  MaxTries = 1
  MaxRequests = 1
  MaxLeases = 1
  MaxConn = 1
  MaxCrashes = 1
  MaxErrors = 1
  MaxInFlight = 2
  MaxQueue = 1
PROPERTIES
  PlaybackEnds
CHECK_DEADLOCK FALSE
