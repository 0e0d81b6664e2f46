SPECIFICATION FairSpec
CONSTANTS
  Server <- MCServer
  Local = "home"
  Bad = "bad"
  Lists <- MCLists
  Kept <- MCKept
  Limit = 1
  MaxOps = 3
INVARIANTS TypeOK NoTwins DisplayIsPage NoneLost PageIsThere
PROPERTIES JobIsOver LoadingIsOver
CHECK_DEADLOCK FALSE
