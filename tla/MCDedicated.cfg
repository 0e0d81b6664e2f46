CONSTANTS
  Missing = {"gone"}
  Fallback = "mp_crash"
  Settings <- MCSettings
  Currents <- MCCurrents
  Gametype = "none"
  None = None
  MaxOps = 4
SPECIFICATION Spec
INVARIANTS GametypeOfMap InTurn
PROPERTIES MapComes
CHECK_DEADLOCK FALSE
