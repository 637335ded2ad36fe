\* The smallest configuration: two devices that stay known, nobody excluded,
\* no exception, no SIGKILL.
CONSTANTS
  d1 = d1
  d2 = d2
  d3 = d3
  None = None
  Devices = {d1, d2}
  NodeLists <- MCTwoNodes
  Blacklists <- MCNobody
  MaxEvents = 2
  MaxFails = 0
  ShutdownBudget = 5
SPECIFICATION Spec
INVARIANTS
  TerminateRestoresArp
CHECK_DEADLOCK FALSE
