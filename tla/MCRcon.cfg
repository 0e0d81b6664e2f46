CONSTANTS
  c1 = c1
  c2 = c2
  t1 = t1
  main = main
  Client = {c1, c2}
  Thread = {t1}
  Main = main
  None = None
  MaxRequests = 2
  MaxLines = 4
SPECIFICATION Spec
INVARIANTS AnswerIsOfRequest OutputGoesOneWay
PROPERTIES AnswerComes
CHECK_DEADLOCK FALSE
