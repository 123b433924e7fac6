SPECIFICATION Spec
CONSTANTS
  MaxRequests = 4
  MaxRuns = 2
  MaxCrashes = 1
INVARIANTS StatusHonest ObeysOwnSignals
PROPERTIES SignalsTaken StopEndsRun
CHECK_DEADLOCK FALSE
