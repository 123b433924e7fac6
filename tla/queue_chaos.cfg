SPECIFICATION Spec
CONSTANTS
  p1 = p1
  p2 = p2
  t1 = t1
  t2 = t2
  NoJob = NoJob
  NoPid = NoPid
  NumJobs = 1
  Pids = {p1, p2}
  Threads = {t1, t2}
  UserOps <- ChaosOps
  AnyTime <- ChaosOps
  Exits = {"rebuild", "fault"}
  Withdrawn = {}
  MaxCrashes = 0
  CrashDuring = {}
  MaxPriority = 0
  MaxLines = 1
  MaxResumes = 1
  MaxRebuilds = 1
SYMMETRY PidsAndThreads
INVARIANTS ClaimHeld ActiveIsWatched
PROPERTIES DeletedForGood
CHECK_DEADLOCK FALSE
