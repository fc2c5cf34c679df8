SPECIFICATION Spec
CONSTANTS
  NaN = NaN
  Names <- MCNames
  Inputs <- MCInputs
INVARIANTS
  TypeOK
  MovesWithinBounds
  StepCapped
  WorstFirst
  ChangedIsHonest
  TotalConserved
  ResultIsGreedy
PROPERTIES
  ImplementsTransfer
  Terminates
CHECK_DEADLOCK FALSE
