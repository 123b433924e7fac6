SPECIFICATION Spec
CONSTANTS
  MaxSteps = 2
  MaxRuns = 3
  KeepLast = 1
  WipeCanFail = FALSE
INVARIANTS DamageIsOld SavedIsKept
PROPERTIES KeepsResumePoints
CHECK_DEADLOCK FALSE
