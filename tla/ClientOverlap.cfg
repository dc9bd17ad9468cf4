SPECIFICATION MCClientSpec
CONSTANTS
  Ids = {1}
  MaxSession = 3
  NiIds = {7}
  MaxUnserved = 3
  Careful = FALSE
  FenceIds = {1, 2}
  Breaches = {b1}
  MaxFences = 2
  MaxFenceCalls = 2
  ControlConfigs = {0, 1}
  MaxControl = 5
  MaxUnanswered = 2
INVARIANTS AnswersMatch
CHECK_DEADLOCK FALSE
