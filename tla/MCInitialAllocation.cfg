SPECIFICATION Spec
CONSTANTS
  Ranges <- MCRanges
  Specs <- MCSpecs
INVARIANTS
  TypeOK
  SumsToFull
  WithinBounds
  Proportional
  LoopIsInitialWeights
CHECK_DEADLOCK FALSE
