SPECIFICATION Spec
CONSTANTS
  Modules = {m1, m2}
  MaxUpdates = 2
  MaxForeign = 0
  MaxQueue = 1
  MaxWire = 1
  MaxReconnects = 1
  Unknown = Unknown
  Nothing = Nothing
SYMMETRY ModuleSymmetry
INVARIANTS TypeOK OneWayBack  NothingLost CacheHonest
CHECK_DEADLOCK FALSE
