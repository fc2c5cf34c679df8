SPECIFICATION Spec
CONSTANTS
  Names = {1, 2, 3}
  NaN = NaN
  Inf = Inf
  NoSource = NoSource
  MaxWindow = 1
  MeanUnit = 1
  Kinds = {"active", "paused"}
  Slack = 1
  Specs <- MCSpecs
  Routes <- PlainRoutes
  Readings <- Slow1
  DefaultCooldown = 1
  MaxAge = 1
  PromptWatch = FALSE
  Env = {"editSpec", "deletePolicy", "editRoute", "apiFault"}
  MaxEdits = 1
  MaxFaults = 1
PROPERTIES
  PauseHonored
  RouteConverges
  DeletedForgotten
CHECK_DEADLOCK FALSE
