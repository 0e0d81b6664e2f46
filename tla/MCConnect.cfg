SPECIFICATION FairSpec
CONSTANTS
  Server <- MCServer
  None = None
  MaxOps = 4
INVARIANTS TypeOK AttemptOwnsHost FlagIsOwned
PROPERTIES JoinIsLatest WaitingJoins ReconnectEnds
CHECK_DEADLOCK FALSE
