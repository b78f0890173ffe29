CONSTANTS
  a = a
  b = b
  Node = {a, b}
  MaxHlc = 3
  Author <- DaysAuthorOf
  Calendar <- TwoDaysCalendar
  LastDay = 2
  FreezeWindow = 2
  SyncLimit = 2
  c1 = c1
  c2 = c2
  Caller = {c1}
  Home <- HomeA
  Interleaved = {}
  MaxLive = 2
  MaxLinear = 0
  Unreliable = FALSE
SPECIFICATION Spec
INVARIANTS TypeOK TreeCoversStore OnlyPastDaysFrozen SessionExchanges
 
CHECK_DEADLOCK FALSE
VIEW Seen
