CONSTANTS
  a = a
  b = b
  Node = {a, b}
  MaxHlc = 2
  Author <- AuthorOf
  Calendar <- SameDayCalendar
  LastDay = 0
  FreezeWindow = 1
  SyncLimit = 2
  c1 = c1
  c2 = c2
  Caller = {c1}
  Home <- HomeA
  Interleaved = {}
  MaxLive = 0
  MaxLinear = 0
  Unreliable = FALSE
SPECIFICATION ASpec
INVARIANT MatchingRootsInSync
CHECK_DEADLOCK FALSE
