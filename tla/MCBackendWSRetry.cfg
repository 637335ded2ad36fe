CONSTANTS
  q1 = q1
  q2 = q2
  q3 = q3
  Action <- MCAction
  Echoed = {"updateOption"}
  Retries = 3
  Requests = {q1}
  MaxConns = 2
SPECIFICATION Spec
PROPERTIES
  RetriedAfterLoss
CHECK_DEADLOCK FALSE
