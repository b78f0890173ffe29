CONSTANTS
  p = p
  f = f
  g = g
  d1 = d1
  d2 = d2
  d3 = d3
  Hole = Hole
  Path = {p}
  File = {f, g}
  PathOf <- MCPathOf
  FileOf <- MCFileOf
  Download = {d1, d2, d3}
  Slots = 2
  MaxRetries = 2
  Crowd = FALSE
  MayFail = TRUE
SYMMETRY Same
SPECIFICATION Spec
INVARIANTS TypeOK TargetWhole BitmapCovered CompletedStored
CHECK_DEADLOCK FALSE
