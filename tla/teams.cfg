SPECIFICATION Spec
CONSTANTS
  red = red
  blue = blue
  NoTeam = NoTeam
  NotStarted = NotStarted
  Team <- MCTeam
  MaxOps = 5
  MaxMessages = 1
  MaxStarts = 1
SYMMETRY MCSymmetry
INVARIANTS
  TypeOK
  RowsHaveKeys
  ActiveHasKey
  SavedAsHeld
  Unmixed
CHECK_DEADLOCK FALSE
