CONSTANTS
  Slots = 2
  MaxQueue = 4
  Room = 3
  Byte = 2
  None = None
  MaxSaid = 2
  MaxGame = 1
SPECIFICATION Spec
INVARIANTS HearingIsAllowed NoneDropped
PROPERTIES QueueIsSent
CHECK_DEADLOCK FALSE
