CONSTANTS
  None = None
  Macs = {d1, d2}
  Addrs = {a1, a2}
  Names = {n1}
  Slots = {h1, h2}
  MaxReplies = 2
  Reported = {r1, r2}
  Known = {r2}
  Unknown = Unknown
  Handlers = {h1, h2}
  Callbacks = {p1}
  MaxReports = 2
  MaxUser = 1
  MaxFaults = 1
  Absent = Absent
  o1 = o1
  o2 = o2
  Owners = {o1, o2}
  Filters = {x, k, p}
  Watching = {p}
  Broken = {k}
  Compilers = {h1, h2}
  Processes <- MCProcesses
  MaxChanges = 2
  MaxAddress = 2
  MaxFailures = 1
  Modules = {m1, m2}
  Logger = Logger
  Classes = {k1}
  MaxInbox = 2
  MaxGeneration = 2
  MaxDeaths = 1
  MaxInterrupts = 2
  Messages = {l1, l2, l3}
  Lists <- MCLists
  Queries <- MCQueries
  NoAnswer = NoAnswer
  Scanned = {a1, a2}
  Properties <- MCProperties
  Descriptions <- MCDescriptions
  MaxRounds = 2
  MaxErrors = 1
  MaxUpdates = 2
  MaxCrashes = 1
SPECIFICATION WatchdogSpec
INVARIANTS
  WatchdogTypeOK
  WatchdogSettled
PROPERTIES
  TableCatchesUp
  SpooferFollows
  StopsWhenItMust
\* every part stops at its bounds
CHECK_DEADLOCK FALSE
