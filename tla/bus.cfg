CONSTANTS
  h1 = h1
  h2 = h2
  p1 = p1
  p2 = p2
  Handler = {h1, h2}
  Publisher = {p1, p2}
  Capacity = 1
  MaxEvents <- TwoAndOne
  MaxLoops = 2
SPECIFICATION FairSpec
INVARIANTS TypeOK LoopInOrder
PROPERTIES Delivered DeliversAtMostOnce
CHECK_DEADLOCK FALSE
