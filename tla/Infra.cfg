SPECIFICATION MCSpec
CONSTANTS
  Messages = {m1, m2, kill}
  Kill = kill
  Cells = {c1, c2, c3}
  Data = {d1, d2, d3, d4}
  Items <- MCItems
  Rank <- MCRank
  Timers = {t1, t2}
  Delays = {1, 2}
  MaxStarts = 3
  MaxNow = 1
  Null = Null
INVARIANTS DelegateShared HandledInOrder TimersAlive
PROPERTIES QueueDrains DestroyEnds ListIsFifo HeapIsPriorityBag EndsOnce TimersEnd
CHECK_DEADLOCK FALSE
