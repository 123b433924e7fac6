SPECIFICATION Spec
CONSTANTS
  p1 = p1
  p2 = p2
  t1 = t1
  t2 = t2
  NoJob = NoJob
  NoPid = NoPid
  NumJobs = 3
  Pids = {p1, p2}
  Threads = {t1, t2}
  UserOps <- BusyOps
  AnyTime <- BusyAnyTime
  Exits = {"ok", "soft", "die"}
  Withdrawn = {}
  MaxCrashes = 0
  CrashDuring = {}
  MaxPriority = 1
  MaxLines = 1
  MaxResumes = 1
  MaxRebuilds = 1
SYMMETRY PidsAndThreads
INVARIANTS SingleTrainer NoOrphanTrainer 
PROPERTIES NoRevival GrantsInOrder
CHECK_DEADLOCK FALSE
