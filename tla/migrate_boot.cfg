SPECIFICATION LiveSpec
CONSTANTS
  backend = backend
  trainer = trainer
  NoProc = NoProc
  Script <- History
  Backend = backend
  Trainers = {trainer}
  Releases <- OldReleases
  MaxDeaths = 1
  MaxLocks = 1
INVARIANT SchemaComplete
PROPERTY BootEnds
CHECK_DEADLOCK FALSE
