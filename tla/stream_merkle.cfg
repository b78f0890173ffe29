CONSTANTS
  root = root
  browse = browse
  Request = {root}
  HalfClosing = {}
SPECIFICATION FairSpec
PROPERTY EveryRequestReturns
CHECK_DEADLOCK FALSE
