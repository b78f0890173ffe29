CONSTANTS
  root = root
  browse = browse
  Request = {root, browse}
  HalfClosing = {browse}
SPECIFICATION FairSpec
INVARIANTS TypeOK AnswerMeansApplied
PROPERTY RequestsReturn
CHECK_DEADLOCK FALSE
