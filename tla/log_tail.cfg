SPECIFICATION LiveSpec
CONSTANTS
  MaxLines = 3
  MaxLogs = 2
  MaxTailers = 3
  MaxCrashes = 1
  MaxFailures = 1
  Unparseable = {2}
  SlowHandler = FALSE
  NoTailer = NoTailer
INVARIANTS NothingSkipped CleanHandOver 
PROPERTIES  EveryLineHandled
CHECK_DEADLOCK FALSE
