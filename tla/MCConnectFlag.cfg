SPECIFICATION Spec
CONSTANTS
  Server <- MCServer
  None = None
  MaxOps = 3
INVARIANTS ConnectingIsUnderWay
CHECK_DEADLOCK FALSE
