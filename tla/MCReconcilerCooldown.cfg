SPECIFICATION Spec
CONSTANTS
  Names = {1, 2, 3}
  NaN = NaN
  Inf = Inf
  NoSource = NoSource
  MaxWindow = 1
  MeanUnit = 1
  Kinds = {"active", "both", "unmeasured"}
  Slack = 2
  Specs <- MCSpecs
  Routes <- PlainRoutes
  Readings <- Outages
  DefaultCooldown = 2
  MaxAge = 2
  PromptWatch = TRUE
  Env = {"crash"}
  MaxEdits = 0
  MaxFaults = 2
INVARIANTS
  AppliedNearPublished
PROPERTIES
  ImplementsPacedSplit
CHECK_DEADLOCK FALSE
