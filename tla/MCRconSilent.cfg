CONSTANTS
  c1 = c1
  c2 = c2
  t1 = t1
  main = main
  Client = {c1, c2}
  Thread = {t1}
  Main = main
  None = None
  MaxRequests = 1
  MaxLines = 1
SPECIFICATION Spec
INVARIANT RedirectEnds
CHECK_DEADLOCK FALSE
