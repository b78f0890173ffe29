CONSTANTS
  a = a
  b = b
  c1 = c1
  c2 = c2
  Node = {a, b}
  MaxHlc = 2
  Author <- AuthorOf
  Calendar <- SameDayCalendar
  LastDay = 0
  FreezeWindow = 1
  SyncLimit = 2
  Caller = {c1, c2}
  Home <- HomeAB
  Interleaved = {b}
  MaxLive = 0
  MaxLinear = 0
  Unreliable = FALSE
SPECIFICATION Spec
INVARIANT SessionExchanges
PROPERTY TreeOnlyShrinks
CHECK_DEADLOCK FALSE
VIEW Seen
