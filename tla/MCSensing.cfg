SPECIFICATION Spec
CONSTANTS
  MaxWindow = 2
  MeanUnit = 2
  NaN = NaN
  Inf = Inf
  BackendLabel = ""
  Malformed = Malformed
  Policies = {"p", "q"}
  Plans <- MCPlans
  Replies <- MCReplies
  MaxRounds = 3
INVARIANTS
  TypeOK
  SampleKeepsContract
  AllOrNothing
  MeanOfRecent
CHECK_DEADLOCK FALSE
