SPECIFICATION MCSpec
CONSTANTS
  ReportClients <- MCReportClients
  Fixes <- MCFixes
  SvReports <- MCSvReports
  Times <- MCTimes
  Leap <- MCLeap
  AcceptIntermediate = FALSE
  AllowFlpNetworkFixes = FALSE
  PaceEnabled = FALSE
  CustomGga = FALSE
  MaxReportMsgs = 1
  BatchIds = {1, 2, 3}
  BatchClient <- MCBatchClient
  Refused = {3}
  MaxBatch = 2
  MaxCrashes = 1
  Handles = {h1, h2}
  Types = {"SUPL_ES", "WWAN"}
  EmergencyPdn = FALSE
  FreedRead = {}
  MaxRequests = 3
  MaxSsr = 1
  MaxRejects = 1
  MaxLost = 1
  Ids = {1}
  MaxSession = 3
  NiIds = {1, 7}
  MaxUnserved = 2
  Careful = FALSE
  FenceIds = {1, 2}
  Breaches = {b1}
  MaxFences = 2
  MaxFenceCalls = 1
  ControlConfigs = {0, 1}
  MaxControl = 5
  MaxUnanswered = 2
INVARIANTS
  UsedTrue GsvComplete FullReported
  PendingAnswered AcquiredBacked OpenBacked SubscribersInUse
   ControlAnswersMatch BreachesNamed
PROPERTY ClockForward
CHECK_DEADLOCK FALSE
