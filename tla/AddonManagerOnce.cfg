\* The smallest configuration: one addon with one interceptor, a list that
\* never changes, lists six seconds apart, no failure.
CONSTANTS
  a1 = a1
  a2 = a2
  Addons = {a1}
  NInterceptors <- MCOneInterceptor
  Lists <- MCOneList
  MaxTasks = 2
  MaxEntries = 4
  MaxChanges = 0
  MaxCoincidences = 0
  MaxFails = 0
SPECIFICATION Spec
INVARIANTS
  OneProcess
