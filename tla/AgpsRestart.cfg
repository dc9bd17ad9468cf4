SPECIFICATION Spec
CONSTANTS
  h1 = h1
  h2 = h2
  Handles <- TwoHandles
  Types = {"SUPL_ES", "WWAN"}
  EmergencyPdn = FALSE
  FreedRead = {}
  MaxRequests = 3
  MaxSsr = 1
  MaxRejects = 0
  MaxLost = 0
INVARIANTS
  RestartDropsSubscribers
CHECK_DEADLOCK FALSE
