SPECIFICATION FairSpec
CONSTANTS
  c1 = c1
  c2 = c2
  Clients <- OneClient
  TrackingClients <- OneClient
  Ids = {1, 2}
  Owner <- OwnerOne
  Options <- LiveOptions
  None = None
  MinInterval = 2
  DistanceSupported = TRUE
  Patient = FALSE
  MaxCmds = 3
  MaxQueue = 2
  MaxSsr = 1
  MaxFails = 0
  MaxConfigs = 1
PROPERTIES
  EventuallyAnswered
CHECK_DEADLOCK FALSE
