SPECIFICATION FairSpec
CONSTANTS
  c1 = c1
  c2 = c2
  root = root
  sub = sub
  deep = deep
  Root = root
  NoTree = NoTree
  NoDir = NoDir
  Caller <- MCCaller
  Dir <- MCDir
  Parent <- MCParent
  MaxCalls = 3
  MaxChanges = 2
  MaxStarts = 1
INVARIANTS
  TypeOK
  AtRest
  TreeFresh
  DirsWatched
PROPERTY
  WatchersServe
CHECK_DEADLOCK FALSE
