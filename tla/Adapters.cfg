SPECIFICATION MCSpec
CONSTANTS
  Null = Null
  Ids = {1}
  MaxSession = 3
  NiIds = {7}
  MaxUnserved = 3
  Careful = TRUE
  FenceIds = {1, 2}
  Breaches = {b1}
  MaxFences = 2
  MaxFenceCalls = 2
  ControlConfigs = {0, 1}
  MaxControl = 5
  MaxUnanswered = 2
  Keys <- MCKeys
  HwIds = {1, 2}
  MaxInFlight = 2
  MaxRestarts = 1
  Refusals = TRUE
  Adapters = {p1, p2, p3}
  Events = {e1, e2}
  ExcludedEvents = {e2}
  Takers = {p2, p3}
  MAX_ADAPTERS = 2
  MaxApiMsgs = 2
  MaxEngine = 1
  MaxOdcpi = 3
  Constellations = {BDS}
  MaxConfigMsgs = 2
  MaxConfigs = 2
  MaxEngineUps = 2
  Observers = {1, 2}
  DataItems = {11, 12}
  MaxValue = 1
  MaxObserverMsgs = 1
  MaxRequests = 3
  Sentences = {"PQWM1", "PQWP1"}
  OsItems = {"AirplaneMode"}
  ItemValues = {0, 1}
  maxItem = 2
  MAX_NETWORK_HANDLES = 3
  Networks <- MCNetworks
  MaxNetworkEvents = 1
  XtraFields = {"lock", "tac", "throttle"}
  XtraValues <- MCXtraValues
  MaxXtraMsgs = 2
  MaxDatagrams = 2
  MaxXtraRestarts = 1
  MaxFrameworks = 2
  MaxServiceCalls = 4
  CapabilityMasks = {1}
  MaxCapabilities = 1
  SlowStart = TRUE
INVARIANTS  ModemAgrees MaskSettles OdcpiTimed LockAgrees ModeKept ObserverServes LatestReported XtraInformed FrameworkServed
CHECK_DEADLOCK FALSE
