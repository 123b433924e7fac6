SPECIFICATION Spec
CONSTANTS
  Pictures = {a, b}
  UserNames = {1, 2}
  FirstTemp = 5
  FirstFinal = 20
  None = None
  MaxRuns = 2
  MaxTroubles = 1
SYMMETRY PictureSymmetry
INVARIANTS PicturesKept
CHECK_DEADLOCK FALSE
