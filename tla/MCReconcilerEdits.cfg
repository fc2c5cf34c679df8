SPECIFICATION Spec
CONSTANTS
  Names = {1, 2, 3}
  NaN = NaN
  Inf = Inf
  NoSource = NoSource
  MaxWindow = 1
  MeanUnit = 1
  Kinds = {"active", "paused", "invalid"}
  Slack = 2
  Specs <- MCSpecs
  Routes <- PlainRoutes
  Readings <- Slow1
  DefaultCooldown = 1
  MaxAge = 1
  PromptWatch = FALSE
  Env = {"editSpec", "deletePolicy", "createPolicy", "apiFault", "crash"}
  MaxEdits = 3
  MaxFaults = 1
INVARIANTS
  TypeOK
  WeightsLegal
  RouteLegal
  PauseSticks
  ReadyMatchesSpec
  NeverForgotten
  GaugesDropped
CHECK_DEADLOCK FALSE
