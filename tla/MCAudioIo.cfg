SPECIFICATION FairSpec
CONSTANTS
  t1 = t1
  Sessions <- MCOneTalk
  None = none
  MaxStarts = 2
  MaxPlays = 1
  MaxNaps = 1
INVARIANTS
  TypeOK
  MicrophoneAlone
  ClockIsReserved
  PowerIsSafe
  RecordsAreTrue
PROPERTIES
  AudioProceeds
