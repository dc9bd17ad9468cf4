SPECIFICATION MCSpec
CONSTANTS
  Apis = {a1, a2}
  Kinds = {"gnss", "batching"}
  MaxPosted = 1
  MaxNi = 2
  MaxNiMsgs = 2
  Null = Null
INVARIANT DeletedLast
PROPERTIES DestroyDeletes NiEnds
CHECK_DEADLOCK FALSE
