CONSTANTS
  a1 = a1
  a2 = a2
  Addons = {a1, a2}
  NInterceptors <- MCNInterceptors
  Lists <- MCLists
  MaxTasks = 2
  MaxEntries = 11
  MaxChanges = 2
  MaxCoincidences = 1
  MaxFails = 1
SPECIFICATION Spec
INVARIANTS
  ActiveIsComplete
  SoleProcessUnlessOverlap
PROPERTIES
  Converges
  TerminatedAreRestarted
