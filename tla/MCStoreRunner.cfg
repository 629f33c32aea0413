SPECIFICATION FairSpec
CONSTANTS
  MaxUnits = 1
  MaxActions = 2
  MaxInputs = 3
INVARIANTS
  TypeOK
  UpdateNeverOvertakesPlayback
  JobHasOneOwner
PROPERTIES
  NoUnitAgainstInput
  WorkFinishes
