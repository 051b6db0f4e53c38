SPECIFICATION FairSpec
CONSTANTS
  a = a
  b = b
  c = c
  x = x
  y = y
  docs = docs
  src = src
  spec = spec
  Star = Star
  StarStar = StarStar
  Fragment = Fragment
  Unread = Unread
  NoPacket = NoPacket
  Fields = {"main", "head"}
  Files <- RepositoryFiles
  Packets <- AllPackets
  Runners <- RunnersOf
  Purposes <- Reasons
  KnownTools = {"read_file", "ping"}
  Forbidden = {"shutdown"}
  HostCalls <- Asked
  MaxAge = 1
  MaxMoves = 1
  MaxClock = 2
INVARIANTS
  PreflightIsSnapshot
  CycleIsFound
  NoCollision
  NeverStuck
  HostCallIsBound
PROPERTIES
  AdmittedCompletes
CHECK_DEADLOCK FALSE
