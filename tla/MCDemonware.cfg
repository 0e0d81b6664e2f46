CONSTANTS
  lobby = lobby
  v1 = v1
  v2 = v2
  Order <- MCOrder
  Socket = {s1}
  Thread = {r1, r2}
  Port = {p1}
  None = None
  MaxConns = 2
  MaxSent = 3
SPECIFICATION Spec
INVARIANTS StreamIsOwn KeysAgree AnswersKept
PROPERTIES IsChannel ShutdownEnds
CHECK_DEADLOCK FALSE
