CONSTANTS
  r1 = r1
  r2 = r2
  r3 = r3
  e1 = e1
  main = main
  other = other
  Request = {r1, r2, r3}
  Event = {e1}
  Caller = {main, other}
  Daemon = main
SPECIFICATION FairSpec
INVARIANTS TypeOK Drained
PROPERTIES StopsAndAnswers ServesRequests
CHECK_DEADLOCK FALSE
