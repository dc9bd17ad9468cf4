SPECIFICATION Spec
CONSTANTS
  c1 = c1
  c2 = c2
  Clients <- OneClient
  TrackingClients <- OneClient
  Ids = {1, 2, 3}
  Owner <- OwnerOne
  Options <- MixedOptions
  None = None
  MinInterval = 2
  DistanceSupported = TRUE
  Patient = FALSE
  MaxCmds = 4
  MaxQueue = 2
  MaxSsr = 1
  MaxFails = 0
  MaxConfigs = 0
INVARIANTS
  TypeOK
  AnsweredAtMostOnce
  EngineServesTime
CHECK_DEADLOCK FALSE
