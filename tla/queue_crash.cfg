SPECIFICATION LiveSpec
CONSTANTS
  p1 = p1
  p2 = p2
  t1 = t1
  t2 = t2
  NoJob = NoJob
  NoPid = NoPid
  NumJobs = 3
  Pids = {p1, p2}
  Threads = {t1, t2}
  UserOps <- CrashOps
  AnyTime = {}
  Exits = {"ok", "die"}
  Withdrawn = {3}
  MaxCrashes = 1
  CrashDuring = {"claimed", "preflight"}
  MaxPriority = 1
  MaxLines = 1
  MaxResumes = 1
  MaxRebuilds = 1
INVARIANTS RecordedTrainerAdopted DbAgrees
PROPERTIES  EveryRunEnds
CHECK_DEADLOCK FALSE
