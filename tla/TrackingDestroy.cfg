SPECIFICATION Spec
CONSTANTS
  c1 = c1
  c2 = c2
  Clients <- OneClient
  TrackingClients <- OneClient
  Ids = {1, 2}
  Owner <- OwnerOne
  Options <- MixedOptions
  None = None
  MinInterval = 2
  DistanceSupported = TRUE
  Patient = FALSE
  MaxCmds = 3
  MaxQueue = 2
  MaxSsr = 0
  MaxFails = 0
  MaxConfigs = 0
INVARIANTS
  SessionsOwned
CHECK_DEADLOCK FALSE
