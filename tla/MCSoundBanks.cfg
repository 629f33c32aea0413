CONSTANTS
  Contents = {c1, c2}
  NBlocks = 1
  Slots = {s1, s2}
  MaxGeneration = 3
  MaxWear = 1
  Careful = TRUE
  Blank = Blank
  Torn = Torn
  None = None
SPECIFICATION Spec
SYMMETRY Symmetry
INVARIANTS TypeOK LeasedBundleIntact OutcomeIsTruthful
PROPERTIES ReplacedAtomically StagingIsKept
CHECK_DEADLOCK FALSE
