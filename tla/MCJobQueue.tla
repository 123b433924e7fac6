----------------------------- MODULE MCJobQueue -----------------------------
(* Values of the constants of JobQueue for TLC, and its symmetry.          *)
EXTENDS JobQueue, TLC

CONSTANTS p1, p2, t1, t2

\* Process ids and threads are interchangeable; jobs are not (created_at).
PidsAndThreads == Permutations({p1, p2}) \cup Permutations({t1, t2})

\* queue_busy: jobs arrive and are arranged at any moment; users pause, resume,
\* stop and delete when the system is quiet.
BusyAnyTime == {"create", "reorder", "autoqueue"}
BusyOps     == BusyAnyTime \cup {"pause", "resume", "stop", "delete"}

\* queue_chaos: one job, every way to start or end it at any moment.
ChaosOps == {"create", "start", "restart", "stop", "delete"}

\* queue_crash: users wait for quiet.
CrashOps == {"create", "stop", "delete", "autoqueue", "pause"}
=============================================================================
