CONSTANTS
  a = a
  b = b
  Node = {a, b}
  MaxHlc = 3
  Author <- AuthorOf
  Calendar <- SameDayCalendar
  LastDay = 0
  FreezeWindow = 1
  SyncLimit = 2
  c1 = c1
  c2 = c2
  Caller = {c1}
  Home <- HomeA
  Interleaved = {}
  MaxLive = 1
  MaxLinear = 1
  Unreliable = TRUE
SPECIFICATION Spec
INVARIANT OneCopyPerHlc
PROPERTIES MessagesKept ReplicatesMessages
CHECK_DEADLOCK FALSE
