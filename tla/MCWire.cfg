CONSTANTS
  Payloads <- MCPayloads
  MaxPackets = 2
  AssertionError = AssertionError
  ByteBase = 2
  Fields <- MCFields
  Numbers = {1}
  MaxLength = 3
  MaxOps = 2
  Width = 6
  Unit = 2
  Total = 13
  Sizes = {2, 4, 8}
  HeaderLength = 3
  Others = {0, 29, 61}
  Hosts = {r, a, b}
  Router = r
  Outside = o
  RouterMacs = {g1, g2}
  NoMac = NoMac
  Clients = {c1, c2}
  Octets = 4
  Base = 4
  Types = {0, 2}
  ValueBytes = {1, 3}
  MaxValue = 2
  MaxOptions = 2
  a = a
  b = b
  AddonPackets <- MCAddonPackets
  MaxCalls = 2
  AddressBits = 4
  RangeBits = 3
  NameLength = 3
  Configs <- MCConfigs
  NoRoutes = NoRoutes
  MaxMoves = 2
  HalfWords = {0, 1}
  OwnWord <- MCOwnWord
  Workers = 2
  Sums = {0, 1, 2}
SPECIFICATION WireSpec
INVARIANTS
  InOrderIntact
  NothingStuck
  CodecsSound
\* every part stops at its bounds
CHECK_DEADLOCK FALSE
