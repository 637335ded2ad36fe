CONSTANTS
  q1 = q1
  q2 = q2
  q3 = q3
  Action <- MCAction
  Echoed = {"updateOption"}
  Retries = 3
  Requests = {q3}
  MaxConns = 1
SPECIFICATION Spec
INVARIANTS
  RequestReturnsReply
CHECK_DEADLOCK FALSE
