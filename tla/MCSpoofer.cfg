CONSTANTS
  d1 = d1
  d2 = d2
  d3 = d3
  None = None
  Devices = {d1, d2, d3}
  NodeLists <- MCNodeLists
  Blacklists <- MCBlacklists
  MaxEvents = 3
  MaxFails = 1
  ShutdownBudget = 5
SPECIFICATION Spec
INVARIANTS
  QuietTerminateRestores
PROPERTIES
  NoSpoofBeforeWhitelist
  ExclusionTakesEffect
  KnownDevicesAreSpoofed
\* the process ends
CHECK_DEADLOCK FALSE
