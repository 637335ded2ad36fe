CONSTANTS
  q1 = q1
  q2 = q2
  q3 = q3
  Action <- MCAction
  Echoed = {"updateOption"}
  Retries = 3
  Requests = {q1, q2, q3}
  MaxConns = 2
SPECIFICATION Spec
INVARIANTS
  TypeOK
  OwnAnswer
  AtMostOnce
PROPERTIES
  AnsweredOrLost
  LossNoticed
\* a client that has lost its last connection waits for ever
CHECK_DEADLOCK FALSE
