SPECIFICATION Spec
CONSTANTS
  Server <- LongServer
  Local = "home"
  Bad = "bad"
  Lists <- LongLists
  Kept <- LongKept
  Limit = 2
  MaxOps = 2
INVARIANTS LimitKept
CHECK_DEADLOCK FALSE
