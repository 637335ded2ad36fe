CONSTANTS
  s1 = s1
  s2 = s2
  Senders = {s1, s2}
  Receivers = {r1, r2}
  Pieces <- MCPieces
  Cap = 1
SPECIFICATION Spec
INVARIANTS
  TypeOK
  SemMatchesQueue
  FramesIntact
  OnlyRequeuedOvertaken
PROPERTIES
  ImplementsLossyQueue
  Drains
  CloseReachesReceivers
\* everything has been put and read, or every process is gone
CHECK_DEADLOCK FALSE
