SPECIFICATION Spec
CONSTANTS
  Pictures = {a, b, c}
  UserNames = {21, 22}
  FirstTemp = 1
  FirstFinal = 10
  None = None
  MaxRuns = 2
  MaxTroubles = 1
SYMMETRY PictureSymmetry
INVARIANTS TypeOK PicturesKept  
CHECK_DEADLOCK FALSE
