SPECIFICATION Spec
CONSTANTS
  c1 = c1
  c2 = c2
  Clients <- TwoClients
  TrackingClients <- TwoClients
  Ids = {1, 2}
  Owner <- OwnerOf2
  Options <- MixedOptions
  None = None
  MinInterval = 2
  DistanceSupported = TRUE
  Patient = TRUE
  MaxCmds = 4
  MaxQueue = 3
  MaxSsr = 1
  MaxFails = 1
  MaxConfigs = 0
INVARIANTS
  AllAnswered
  PowerStateTrue
  SessionsOwned
CHECK_DEADLOCK FALSE
